---- MODULE Spec2Model ----
(***************************************************************************)
(* Model of the RA-Company/database facade: the differential UPDATE        *)
(* builder (postgres.FieldValue), the dual-mode key-value client           *)
(* (redis.RedisClient) and the relational client (postgres.PostgresClient).*)
(*                                                                         *)
(* Go strings are modelled as sequences of one-character strings, so that  *)
(* quoting, escaping and formatting are computed, not assumed.             *)
(***************************************************************************)
EXTENDS Integers, Sequences, FiniteSets, TLC

VARIABLES
    Fields,      \* FieldValue.Fields
    Values,      \* FieldValue.Values
    pairs,       \* history: the (field, literal) pairs in the order they were added
    call,        \* the most recent builder call: its name, arguments and results
    before,      \* history: Fields and Values as they were when that call began
    ncalls       \* number of setter / Add* calls made on the builder so far

VARIABLES
    client,      \* RedisClient.client: "nil" or the single-node handle
    cluster,     \* RedisClient.cluster: "nil" or the cluster handle
    db,          \* RedisClient.db
    singlePush,  \* RedisClient.singlePush: "nil" or the installed script
    store,       \* the keyspace of each backend: store[backend][key]
    cur,         \* cur[p]: the call goroutine p has in flight (op "none": no call)
    last,        \* the call that returned last, with what the driver and the caller saw
    ep,          \* history: per key, the current group of overlapping SinglePush calls
    nredis,      \* number of key-value calls started so far
    started,     \* history: the hosts string of the most recent Start (<<>>: none)
    lastQuery,   \* RedisClient.lastQuery: the two words of the string
    DoNotLogQueries, \* RedisClient.DoNotLogQueries
    nlogged      \* number of lines the client emitted to the debug log

VARIABLES
    pool,        \* PostgresClient.client: "nil" or the connection pool
    pgcall,      \* the Insert / InsertUUID call: position, locals, result, events
    pgtable,     \* the committed rows of the database, in insertion order
    seq,         \* the next identifier the database hands out
    npg          \* number of Insert / InsertUUID calls started so far

VARIABLES
    chClient,    \* ClickHouseClient.client: "nil" or the connection
    chDoNotLogQueries, \* ClickHouseClient.DoNotLogQueries
    chLastQuery, \* ClickHouseClient.lastQuery
    chLogged,    \* number of lines the client emitted to the debug log
    chcall,      \* the call of the columnar client: position, contexts, result
    nch          \* number of calls of the columnar client started so far

VARIABLE
    conv         \* a call of ToStr or ArrayToString: argument, result, returned or not

fvVars == <<Fields, Values, pairs, call, before, ncalls>>

redisVars == <<client, cluster, db, singlePush, store, cur, last, ep, nredis,
               started, lastQuery, DoNotLogQueries, nlogged>>

pgVars == <<pool, pgcall, pgtable, seq, npg>>

chVars == <<chClient, chDoNotLogQueries, chLastQuery, chLogged, chcall, nch>>

convVars == <<conv>>

vars == <<Fields, Values, pairs, call, before, ncalls,
          client, cluster, db, singlePush, store, cur, last, ep, nredis,
          started, lastQuery, DoNotLogQueries, nlogged,
          pool, pgcall, pgtable, seq, npg,
          chClient, chDoNotLogQueries, chLastQuery, chLogged, chcall, nch,
          conv>>

-----------------------------------------------------------------------------
(* Bounds and input sets                                                   *)

\* Number of compare-setter / Add* calls made on one builder.
MaxCalls == 2

\* The column each kind of value is written to: a caller passes the column
\* of the struct field it compares.
Columns(kind) ==
    CASE kind = "string" -> {<<"s">>}
      [] kind = "int" -> {<<"n">>}
      [] kind = "bool" -> {<<"b">>}
      [] kind = "time" -> {<<"t">>, <<"u", "p", "d", "a", "t", "e", "d", "_", "a", "t">>}
      [] kind = "json" -> {<<"j">>}
      [] kind = "ints" -> {<<"x", "s">>}
      [] OTHER -> {<<"s", "s">>}

StringVals == {<<"a">>, <<"'", "a">>}
Int8Vals == {-1, 10}
Int16Vals == {-1, 10}
Int32Vals == {-1, 10}
Int64Vals == {-1, 10}
UInt8Vals == {0, 10}
UInt16Vals == {0, 10}
UInt32Vals == {0, 10}
UInt64Vals == {0, 10}

\* time.Time: an instant (whole hours since 0001-01-01T00:00:00Z, the zero
\* instant of time.Time{}) and a location; "Local" is one hour east of UTC.
Locations == {"UTC", "Local"}
Instants == {1, 2}
TimeVals == [inst : Instants, loc : Locations]
ZeroTime == [inst |-> 0, loc |-> "UTC"]

\* A Go slice: nil, or a (possibly empty) sequence of elements.
NilSlice(t) == [type |-> t, isNil |-> TRUE, elems |-> <<>>]
MkSlice(t, s) == [type |-> t, isNil |-> FALSE, elems |-> s]
IntSliceVals(t) == {NilSlice(t), MkSlice(t, <<>>), MkSlice(t, <<10, -1>>)}
StringSliceVals ==
    {NilSlice("[]string"), MkSlice("[]string", <<>>),
     MkSlice("[]string", << <<"a">>, <<"'">> >>)}

\* Values handed to AddJSON: a string, a number, and a channel (which
\* encoding/json cannot marshal).
JSONVals ==
    {[kind |-> "string", s |-> <<"a", "'">>, n |-> 0],
     [kind |-> "number", s |-> <<>>, n |-> 10],
     [kind |-> "chan", s |-> <<>>, n |-> 0]}

\* Record identifiers handed to UpdateQuery: a uint, a uuid.UUID and an int64.
IdUint == [kind |-> "uint", s |-> <<>>, n |-> 10]
IdUUID == [kind |-> "uuid", s |-> <<"u", "-", "1">>, n |-> 0]
IdInt64 == [kind |-> "int64", s |-> <<>>, n |-> 10]
IdVals == {IdUint, IdUUID, IdInt64}

\* The calls of UpdateQuery that are made: (table, id, reading of the clock).
UpdateQueryArgs ==
    {<<<<"t">>, IdUint, 1>>, <<<<"u", "s">>, IdUint, 2>>,
     <<<<"t">>, IdUUID, 2>>, <<<<"u", "s">>, IdInt64, 1>>}

-----------------------------------------------------------------------------
(* String helpers                                                          *)

RECURSIVE Join(_, _)
\* strings.Join
Join(elems, sep) ==
    IF Len(elems) = 0 THEN <<>>
    ELSE IF Len(elems) = 1 THEN elems[1]
    ELSE elems[1] \o sep \o Join(Tail(elems), sep)
\* Mutant of ToStr: quotes are not doubled.
ToStr_NoEscape(str) == str

RECURSIVE ToStr_FirstOnly(_)
\* Mutant of ToStr: strings.Replace(str, "'", "''", 1).
ToStr_FirstOnly(str) ==
    IF str = <<>> THEN <<>>
    ELSE IF Head(str) = "'" THEN <<"'", "'">> \o Tail(str)
    ELSE <<Head(str)>> \o ToStr_FirstOnly(Tail(str))

RECURSIVE ToStr(_)
\* strings.Replace(str, "'", "''", -1)
ToStr(str) ==
    IF str = <<>> THEN <<>>
    ELSE (IF Head(str) = "'" THEN <<"'", "'">> ELSE <<Head(str)>>)
         \o ToStr(Tail(str))

Digits == <<"0", "1", "2", "3", "4", "5", "6", "7", "8", "9">>

RECURSIVE FormatNat(_)
FormatNat(n) ==
    IF n < 10 THEN <<Digits[n + 1]>>
    ELSE FormatNat(n \div 10) \o <<Digits[(n % 10) + 1]>>

\* fmt.Sprintf("%d", n)
FormatInt(n) == IF n < 0 THEN <<"-">> \o FormatNat(0 - n) ELSE FormatNat(n)

\* fmt.Sprintf("%t", b)
FormatBool(b) ==
    IF b THEN <<"t", "r", "u", "e">> ELSE <<"f", "a", "l", "s", "e">>

\* fmt.Sprintf("'%s'", s)
Quoted(s) == <<"'">> \o s \o <<"'">>

Lit_date == <<"0", "0", "0", "1", "-", "0", "1", "-", "0", "1", "T">>
Lit_minsec == <<":", "0", "0", ":", "0", "0">>

\* Offset of a location east of UTC, in hours.
ZoneOffset(loc) == IF loc = "UTC" THEN 0 ELSE 1

\* time.Time.UTC: the same instant, with the location set to UTC.
UTC(t) == [t EXCEPT !.loc = "UTC"]

\* time.Time.Format(time.RFC3339Nano): the wall clock of t in its own
\* location, followed by "Z" for UTC and by the numeric offset otherwise.
FormatRFC3339Nano(t) ==
    LET hour == t.inst + ZoneOffset(t.loc)
        hh == IF hour < 10 THEN <<"0">> \o FormatNat(hour) ELSE FormatNat(hour)
        zone == IF t.loc = "UTC" THEN <<"Z">>
                ELSE <<"+", "0", "1", ":", "0", "0">>
    IN Lit_date \o hh \o Lit_minsec \o zone

\* json.Marshal of the values in JSONVals: a channel is an unsupported type.
MarshalJSON(v) ==
    CASE v.kind = "string" -> [err |-> FALSE, data |-> <<"\"">> \o v.s \o <<"\"">>]
      [] v.kind = "number" -> [err |-> FALSE, data |-> FormatInt(v.n)]
      [] OTHER -> [err |-> TRUE, data |-> <<>>]

RECURSIVE MapFormatInt(_)
MapFormatInt(xs) ==
    IF xs = <<>> THEN <<>> ELSE <<FormatInt(Head(xs))>> \o MapFormatInt(Tail(xs))

\* json.Marshal of an integer slice: null for a nil slice, [e1,e2,...] otherwise.
MarshalIntSlice(v) ==
    IF v.isNil THEN <<"n", "u", "l", "l">>
    ELSE <<"[">> \o Join(MapFormatInt(v.elems), <<",">>) \o <<"]">>

RECURSIVE MapToStr(_)
\* the loop of StringsToString: arr[i] = ToStr(v)
MapToStr(arr) ==
    IF arr = <<>> THEN <<>> ELSE <<ToStr(Head(arr))>> \o MapToStr(Tail(arr))

StringsToString(arr) ==
    IF Len(arr) = 0 THEN <<"[", "]">>
    ELSE <<"[", "'">> \o Join(MapToStr(arr), <<"'", ",", "'">>) \o <<"'", "]">>

\* The alphabet of base64.StdEncoding.
Base64Alphabet ==
    <<"A", "B", "C", "D", "E", "F", "G", "H", "I", "J", "K", "L", "M", "N", "O", "P",
      "Q", "R", "S", "T", "U", "V", "W", "X", "Y", "Z", "a", "b", "c", "d", "e", "f",
      "g", "h", "i", "j", "k", "l", "m", "n", "o", "p", "q", "r", "s", "t", "u", "v",
      "w", "x", "y", "z", "0", "1", "2", "3", "4", "5", "6", "7", "8", "9", "+", "/">>

B64(n) == Base64Alphabet[n + 1]

RECURSIVE Base64(_)
\* base64.StdEncoding.EncodeToString
Base64(bytes) ==
    CASE Len(bytes) = 0 -> <<>>
      [] Len(bytes) = 1 ->
            <<B64(bytes[1] \div 4), B64((bytes[1] % 4) * 16), "=", "=">>
      [] Len(bytes) = 2 ->
            <<B64(bytes[1] \div 4), B64((bytes[1] % 4) * 16 + bytes[2] \div 16),
              B64((bytes[2] % 16) * 4), "=">>
      [] OTHER ->
            <<B64(bytes[1] \div 4), B64((bytes[1] % 4) * 16 + bytes[2] \div 16),
              B64((bytes[2] % 16) * 4 + bytes[3] \div 64), B64(bytes[3] % 64)>>
            \o Base64(SubSeq(bytes, 4, Len(bytes)))

\* json.Marshal of a []byte: null for a nil slice, the base64 text of the
\* bytes in double quotes otherwise.
MarshalByteSlice(v) ==
    IF v.isNil THEN <<"n", "u", "l", "l">>
    ELSE <<"\"">> \o Base64(v.elems) \o <<"\"">>

\* json.Marshal(v) of a slice.
MarshalSlice(v) == IF v.type = "[]uint8" THEN MarshalByteSlice(v) ELSE MarshalIntSlice(v)

\* reflect.TypeOf(v).String() contains "[]"
IsSliceType(t) == t \in {"[]string", "[]int8", "[]int16", "[]int32", "[]int64", "[]uint8"}

ArrayToString(v) ==
    IF v.type = "nil" THEN <<"[", "]">>
    ELSE IF ~IsSliceType(v.type) THEN <<"[", "]">>
    ELSE IF v.type = "[]string" THEN StringsToString(v.elems)
    ELSE LET val == MarshalSlice(v)
         IN IF val = <<"n", "u", "l", "l">> THEN <<"[", "]">> ELSE val

\* Mutant of StringsAfter: the loop writes to a copy.
StringsAfter_Copy(arr) == arr

\* The caller's slice after StringsToString(arr): the loop stores
\* ToStr(v) in arr[i], and arr shares its elements with the caller's
\* slice.
StringsAfter(arr) == MapToStr(arr)

\* The caller's slice after ArrayToString(v): v.([]string) is the caller's
\* slice, which StringsToString writes to; json.Marshal only reads.
ArrayAfter(v) ==
    IF v.type = "[]string" THEN [v EXCEPT !.elems = StringsAfter(v.elems)] ELSE v

\* slices.Equal
SlicesEqual(s1, s2) ==
    /\ Len(s1.elems) = Len(s2.elems)
    /\ \A i \in 1..Len(s1.elems) : s1.elems[i] = s2.elems[i]

Lit_ARRAY == <<"A", "R", "R", "A", "Y">>
Lit_SMALLINT == <<":", ":", "S", "M", "A", "L", "L", "I", "N", "T", "[", "]">>
Lit_INTEGER == <<":", ":", "I", "N", "T", "E", "G", "E", "R", "[", "]">>
Lit_BIGINT == <<":", ":", "B", "I", "G", "I", "N", "T", "[", "]">>
Lit_VARCHAR == <<":", ":", "V", "A", "R", "C", "H", "A", "R", "[", "]">>
Lit_updated_at == <<"u", "p", "d", "a", "t", "e", "d", "_", "a", "t">>
Lit_UPDATE == <<"U", "P", "D", "A", "T", "E", " ">>
Lit_SET == <<" ", "S", "E", "T", " ", "(">>
Lit_EQ == <<")", " ", "=", " ", "(">>
Lit_WHERE == <<")", " ", "W", "H", "E", "R", "E", " ", "i", "d", " ", "=", " ">>

-----------------------------------------------------------------------------
(* postgres.FieldValue: the differential UPDATE builder                    *)

\* dst.Fields = append(dst.Fields, field); dst.Values = append(dst.Values, lit)
AppendPair(field, lit) ==
    /\ Fields' = Append(Fields, field)
    /\ Values' = Append(Values, lit)
    /\ pairs' = Append(pairs, [field |-> field, value |-> lit])

NoAppend == UNCHANGED <<Fields, Values, pairs>>

AddString(is, field) == AppendPair(field, Quoted(ToStr(is)))
\* Mutant of String: the value is added without comparing.
String_NoCompare(was, is, field) == AddString(is, field)


String(was, is, field) == IF was # is THEN AddString(is, field) ELSE NoAppend

AddInt64(is, field) == AppendPair(field, FormatInt(is))

AddUInt64(is, field) == AppendPair(field, FormatInt(is))

Int64(was, is, field) == IF was # is THEN AddInt64(is, field) ELSE NoAppend

\* int64(was), int64(is): value-preserving for every uint8/16/32.
UInt8(was, is, field) == Int64(was, is, field)

UInt16(was, is, field) == Int64(was, is, field)

UInt32(was, is, field) == Int64(was, is, field)

UInt64(was, is, field) == IF was # is THEN AddUInt64(is, field) ELSE NoAppend

Int8(was, is, field) == IF was # is THEN AddInt64(is, field) ELSE NoAppend

Int16(was, is, field) == IF was # is THEN AddInt64(is, field) ELSE NoAppend

Int32(was, is, field) == IF was # is THEN AddInt64(is, field) ELSE NoAppend

AddBool(is, field) == AppendPair(field, FormatBool(is))

Bool(was, is, field) == IF was # is THEN AddBool(is, field) ELSE NoAppend

AddTime(is, field) == AppendPair(field, Quoted(FormatRFC3339Nano(UTC(is))))

\* was != is on time.Time compares the struct: instant and location.
Time(was, is, field) == IF was # is THEN AddTime(is, field) ELSE NoAppend
\* Mutant of AddJSON: the column is appended before json.Marshal is tried.
AddJSON_FieldFirst(is, field) ==
    LET m == MarshalJSON(is)
    IN IF m.err
       THEN Fields' = Append(Fields, field) /\ UNCHANGED <<Values, pairs>>
       ELSE AppendPair(field, Quoted(ToStr(m.data)))

\* Returns through AddJSONErr whether json.Marshal failed.
AddJSON(is, field) ==
    LET m == MarshalJSON(is)
    IN IF m.err THEN NoAppend
       ELSE AppendPair(field, Quoted(ToStr(m.data)))

AddJSONErr(is) == MarshalJSON(is).err

AddInt8Slice(is, field) ==
    AppendPair(field, Lit_ARRAY \o ArrayToString(is) \o Lit_SMALLINT)

Int8Slice(was, is, field) ==
    IF ~SlicesEqual(was, is) THEN AddInt8Slice(is, field) ELSE NoAppend

AddInt16Slice(is, field) ==
    AppendPair(field, Lit_ARRAY \o ArrayToString(is) \o Lit_SMALLINT)

Int16Slice(was, is, field) ==
    IF ~SlicesEqual(was, is) THEN AddInt16Slice(is, field) ELSE NoAppend

AddInt32Slice(is, field) ==
    AppendPair(field, Lit_ARRAY \o ArrayToString(is) \o Lit_INTEGER)

Int32Slice(was, is, field) ==
    IF ~SlicesEqual(was, is) THEN AddInt32Slice(is, field) ELSE NoAppend

AddInt64Slice(is, field) ==
    AppendPair(field, Lit_ARRAY \o ArrayToString(is) \o Lit_BIGINT)

Int64Slice(was, is, field) ==
    IF ~SlicesEqual(was, is) THEN AddInt64Slice(is, field) ELSE NoAppend

AddStringSlice(is, field) ==
    AppendPair(field, Lit_ARRAY \o ArrayToString(is) \o Lit_VARCHAR)

StringSlice(was, is, field) ==
    IF ~SlicesEqual(was, is) THEN AddStringSlice(is, field) ELSE NoAppend

\* fmt.Sprintf("%s", v) of an id that is no string and no Stringer:
\* the bad-verb form %!s(type=value).
FormatBadVerb(id) ==
    <<"%", "!", "s", "(", "i", "n", "t", "6", "4", "=">> \o FormatInt(id.n) \o <<")">>
\* Mutant of UpdateQuery: the check for an empty builder is missing.
UpdateQuery_NoEmptyCheck(table, id, now) ==
    LET update == UTC(now)
        fields == Join(Fields, <<",">>) \o <<",">> \o Lit_updated_at
        values == Join(Values, <<",">>) \o <<",">>
                  \o Quoted(FormatRFC3339Nano(update))
        head == Lit_UPDATE \o table \o Lit_SET \o fields \o Lit_EQ
                \o values \o Lit_WHERE
    IN [query |-> head \o Quoted(FormatBadVerb(id)), ts |-> update]

\* Mutant of UpdateQuery: the stamp is rendered from time.Now() without .UTC().
UpdateQuery_LocalStamp(table, id, now) ==
    IF Len(Fields) = 0 THEN [query |-> <<>>, ts |-> ZeroTime]
    ELSE
        LET fields == Join(Fields, <<",">>) \o <<",">> \o Lit_updated_at
            values == Join(Values, <<",">>) \o <<",">>
                      \o Quoted(FormatRFC3339Nano(now))
            head == Lit_UPDATE \o table \o Lit_SET \o fields \o Lit_EQ
                    \o values \o Lit_WHERE
        IN CASE id.kind = "uint" -> [query |-> head \o FormatInt(id.n), ts |-> UTC(now)]
             [] id.kind = "uuid" -> [query |-> head \o Quoted(id.s), ts |-> UTC(now)]
             [] OTHER -> [query |-> head \o Quoted(FormatBadVerb(id)), ts |-> UTC(now)]

\* The two results of UpdateQuery(table, id), with time.Now() = now.
UpdateQuery(table, id, now) ==
    IF Len(Fields) = 0 THEN [query |-> <<>>, ts |-> ZeroTime]
    ELSE
        LET update == UTC(now)
            fields == Join(Fields, <<",">>) \o <<",">> \o Lit_updated_at
            values == Join(Values, <<",">>) \o <<",">>
                      \o Quoted(FormatRFC3339Nano(update))
            head == Lit_UPDATE \o table \o Lit_SET \o fields \o Lit_EQ
                    \o values \o Lit_WHERE
        IN CASE id.kind = "uint" -> [query |-> head \o FormatInt(id.n), ts |-> update]
             [] id.kind = "uuid" -> [query |-> head \o Quoted(id.s), ts |-> update]
             [] OTHER -> [query |-> head \o Quoted(FormatBadVerb(id)), ts |-> update]

-----------------------------------------------------------------------------
(* Calls made on one builder                                               *)

None == "-"

NoCall ==
    [op |-> "none", was |-> None, is |-> None, field |-> None, table |-> None,
     id |-> None, query |-> None, ts |-> None, err |-> FALSE]

\* Records a compare-setter or Add* call and counts it.
Called(op, was, is, field, err) ==
    /\ ncalls < MaxCalls
    /\ call' = [NoCall EXCEPT !.op = op, !.was = was, !.is = is,
                              !.field = field, !.err = err]
    /\ before' = [Fields |-> Fields, Values |-> Values]
    /\ ncalls' = ncalls + 1
    /\ UNCHANGED <<redisVars, pgVars, chVars, convVars>>

CallString ==
    \E was \in StringVals, is \in StringVals, field \in Columns("string") :
        String(was, is, field) /\ Called("String", was, is, field, FALSE)

CallUInt8 ==
    \E was \in UInt8Vals, is \in UInt8Vals, field \in Columns("int") :
        UInt8(was, is, field) /\ Called("UInt8", was, is, field, FALSE)

CallUInt16 ==
    \E was \in UInt16Vals, is \in UInt16Vals, field \in Columns("int") :
        UInt16(was, is, field) /\ Called("UInt16", was, is, field, FALSE)

CallUInt32 ==
    \E was \in UInt32Vals, is \in UInt32Vals, field \in Columns("int") :
        UInt32(was, is, field) /\ Called("UInt32", was, is, field, FALSE)

CallUInt64 ==
    \E was \in UInt64Vals, is \in UInt64Vals, field \in Columns("int") :
        UInt64(was, is, field) /\ Called("UInt64", was, is, field, FALSE)

CallInt8 ==
    \E was \in Int8Vals, is \in Int8Vals, field \in Columns("int") :
        Int8(was, is, field) /\ Called("Int8", was, is, field, FALSE)

CallInt16 ==
    \E was \in Int16Vals, is \in Int16Vals, field \in Columns("int") :
        Int16(was, is, field) /\ Called("Int16", was, is, field, FALSE)

CallInt32 ==
    \E was \in Int32Vals, is \in Int32Vals, field \in Columns("int") :
        Int32(was, is, field) /\ Called("Int32", was, is, field, FALSE)

CallInt64 ==
    \E was \in Int64Vals, is \in Int64Vals, field \in Columns("int") :
        Int64(was, is, field) /\ Called("Int64", was, is, field, FALSE)

CallBool ==
    \E was \in BOOLEAN, is \in BOOLEAN, field \in Columns("bool") :
        Bool(was, is, field) /\ Called("Bool", was, is, field, FALSE)

CallTime ==
    \E was \in TimeVals, is \in TimeVals, field \in Columns("time") :
        Time(was, is, field) /\ Called("Time", was, is, field, FALSE)

CallInt8Slice ==
    \E was \in IntSliceVals("[]int8"), is \in IntSliceVals("[]int8"), field \in Columns("ints") :
        Int8Slice(was, is, field) /\ Called("Int8Slice", was, is, field, FALSE)

CallInt16Slice ==
    \E was \in IntSliceVals("[]int16"), is \in IntSliceVals("[]int16"), field \in Columns("ints") :
        Int16Slice(was, is, field) /\ Called("Int16Slice", was, is, field, FALSE)

CallInt32Slice ==
    \E was \in IntSliceVals("[]int32"), is \in IntSliceVals("[]int32"), field \in Columns("ints") :
        Int32Slice(was, is, field) /\ Called("Int32Slice", was, is, field, FALSE)

CallInt64Slice ==
    \E was \in IntSliceVals("[]int64"), is \in IntSliceVals("[]int64"), field \in Columns("ints") :
        Int64Slice(was, is, field) /\ Called("Int64Slice", was, is, field, FALSE)

CallStringSlice ==
    \E was \in StringSliceVals, is \in StringSliceVals, field \in Columns("strings") :
        StringSlice(was, is, field) /\ Called("StringSlice", was, is, field, FALSE)

CallAddString ==
    \E is \in StringVals, field \in Columns("string") :
        AddString(is, field) /\ Called("AddString", None, is, field, FALSE)

CallAddInt64 ==
    \E is \in Int64Vals, field \in Columns("int") :
        AddInt64(is, field) /\ Called("AddInt64", None, is, field, FALSE)

CallAddUInt64 ==
    \E is \in UInt64Vals, field \in Columns("int") :
        AddUInt64(is, field) /\ Called("AddUInt64", None, is, field, FALSE)

CallAddBool ==
    \E is \in BOOLEAN, field \in Columns("bool") :
        AddBool(is, field) /\ Called("AddBool", None, is, field, FALSE)

CallAddTime ==
    \E is \in TimeVals, field \in Columns("time") :
        AddTime(is, field) /\ Called("AddTime", None, is, field, FALSE)

CallAddInt8Slice ==
    \E is \in IntSliceVals("[]int8"), field \in Columns("ints") :
        AddInt8Slice(is, field) /\ Called("AddInt8Slice", None, is, field, FALSE)

CallAddInt16Slice ==
    \E is \in IntSliceVals("[]int16"), field \in Columns("ints") :
        AddInt16Slice(is, field) /\ Called("AddInt16Slice", None, is, field, FALSE)

CallAddInt32Slice ==
    \E is \in IntSliceVals("[]int32"), field \in Columns("ints") :
        AddInt32Slice(is, field) /\ Called("AddInt32Slice", None, is, field, FALSE)

CallAddInt64Slice ==
    \E is \in IntSliceVals("[]int64"), field \in Columns("ints") :
        AddInt64Slice(is, field) /\ Called("AddInt64Slice", None, is, field, FALSE)

CallAddStringSlice ==
    \E is \in StringSliceVals, field \in Columns("strings") :
        AddStringSlice(is, field) /\ Called("AddStringSlice", None, is, field, FALSE)

CallAddJSON ==
    \E is \in JSONVals, field \in Columns("json") :
        AddJSON(is, field) /\ Called("AddJSON", None, is, field, AddJSONErr(is))
\* Mutant of CallUpdateQuery: updated_at is appended to the builder itself.
CallUpdateQuery_Appends ==
    \E a \in UpdateQueryArgs :
        LET table == a[1]
            id == a[2]
            r == UpdateQuery(table, id, [inst |-> a[3], loc |-> "Local"])
        IN /\ call' = [NoCall EXCEPT !.op = "UpdateQuery", !.table = table,
                                     !.id = id, !.query = r.query, !.ts = r.ts]
           /\ IF Len(Fields) = 0 THEN NoAppend
              ELSE AppendPair(Lit_updated_at, Quoted(FormatRFC3339Nano(r.ts)))
           /\ before' = [Fields |-> Fields, Values |-> Values]
           /\ UNCHANGED <<ncalls, redisVars, pgVars, chVars, convVars>>


CallUpdateQuery ==
    \E a \in UpdateQueryArgs :
        LET table == a[1]
            id == a[2]
            r == UpdateQuery(table, id, [inst |-> a[3], loc |-> "Local"])
        IN /\ call' = [NoCall EXCEPT !.op = "UpdateQuery", !.table = table,
                                     !.id = id, !.query = r.query, !.ts = r.ts]
           /\ before' = [Fields |-> Fields, Values |-> Values]
           /\ UNCHANGED <<Fields, Values, pairs, ncalls, redisVars, pgVars, chVars, convVars>>

FVInit ==
    /\ Fields = <<>>
    /\ Values = <<>>
    /\ pairs = <<>>
    /\ call = NoCall
    /\ before = [Fields |-> <<>>, Values |-> <<>>]
    /\ ncalls = 0

FVNext ==
    \/ CallString
    \/ CallUInt8
    \/ CallUInt16
    \/ CallUInt32
    \/ CallUInt64
    \/ CallInt8
    \/ CallInt16
    \/ CallInt32
    \/ CallInt64
    \/ CallBool
    \/ CallTime
    \/ CallInt8Slice
    \/ CallInt16Slice
    \/ CallInt32Slice
    \/ CallInt64Slice
    \/ CallStringSlice
    \/ CallAddString
    \/ CallAddInt64
    \/ CallAddUInt64
    \/ CallAddBool
    \/ CallAddTime
    \/ CallAddInt8Slice
    \/ CallAddInt16Slice
    \/ CallAddInt32Slice
    \/ CallAddInt64Slice
    \/ CallAddStringSlice
    \/ CallAddJSON
    \/ CallUpdateQuery

-----------------------------------------------------------------------------
(* redis.RedisClient: the dual-mode key-value client                       *)

\* Number of key-value calls started in one run.
MaxRedisCalls == 3

Procs == {"p1", "p2", "p3"}
Keys == {"k1"}
StreamKeys == {"s1"}
AllKeys == Keys \cup StreamKeys
Groups == {"g1", "g2"}
MsgGroups == {"g1"}
Backends == {"single", "cluster"}

\* Start is called with one host or with a comma-separated list of hosts.
HostStrings == {<<"h", "1">>, <<"h", "1", ",", "h", "2">>}
DbNumbers == {0, 1}

Nil == "nil"
RedisNil == "redis: nil"
WrongType == "WRONGTYPE"
IOError == "i/o timeout"
ErrorListIsNotEmpty == "list is not empty"

BusyGroup == "BUSYGROUP Consumer Group name already exists"
ErrorGroupAlreadyExists == "group already exists"

\* A key of a backend: absent, a string, a (non-empty) list or a stream
\* with its consumer groups.
\* A stream has the number of its last message (lastid), and per group the
\* number of the last message delivered (cursor), the messages delivered
\* and not acknowledged (pending) and, as history, the messages delivered
\* so far (seen). ttl is the remaining lifetime in seconds, 0 for none.
Absent ==
    [type |-> "none", str |-> "", list |-> <<>>, groups |-> {}, lastid |-> 0,
     cursor |-> {}, pending |-> {}, seen |-> {}, ttl |-> 0]
StrEntry(v) == [Absent EXCEPT !.type = "string", !.str = v]
ListEntry(l) == IF l = <<>> THEN Absent ELSE [Absent EXCEPT !.type = "list", !.list = l]
StreamEntry(gs) ==
    [Absent EXCEPT !.type = "stream", !.groups = gs, !.cursor = {<<g, 0>> : g \in gs}]

\* A call of a method: its key, value, default, group, and for the stream
\* methods the Count, the NoMkStream flag and the message ID; ttl is the
\* expiration in seconds and sets the batch of MultiSet. Where the steps of
\* a call are taken one by one, pc is the call's position, res what it is
\* going to return and todo the words of lastQuery it has yet to write.
NoRedisCall ==
    [op |-> "none", key |-> None, val |-> None, def |-> None, group |-> None,
     count |-> 0, nomk |-> FALSE, id |-> <<>>, ttl |-> 0, sets |-> <<>>,
     pc |-> "call", res |-> None, todo |-> {}]

NoRequest == [cmd |-> "none", key |-> None, args |-> <<>>]

NoReturn ==
    [op |-> "none", key |-> None, val |-> None, def |-> None, group |-> None,
     count |-> 0, nomk |-> FALSE, id |-> <<>>, ttl |-> 0, sets |-> <<>>,
     backend |-> None, req |-> NoRequest, io |-> None, attempts |-> 0,
     pre |-> Absent, post |-> Absent, ran |-> FALSE, drvErr |-> Nil,
     ret |-> [val |-> None, err |-> Nil],
     quiet |-> FALSE, emitted |-> 0, line |-> <<>>, seen |-> <<>>, lines |-> {},
     overlap |-> FALSE]

\* History of the SinglePush calls on a key that overlap in time (a group):
\* whether one is still in flight, whether the key was empty when the first
\* was called, how many were called, how many returned nil, the not-empty
\* error or another error, and the other commands that changed the key
\* meanwhile.
NoEpisode ==
    [open |-> FALSE, empty |-> FALSE, joined |-> 0, nilc |-> 0, nec |-> 0, errc |-> 0, touched |-> {}]

\* A Go string is two words: the address of its bytes, written here as the
\* bytes found there, and its length.
StringOf(line) == [ptr |-> line, len |-> Len(line)]

\* The string two words denote: the first len bytes at ptr, which run into
\* whatever memory follows ("?") when len exceeds the line stored there.
ReadString(w) ==
    IF w.len <= Len(w.ptr) THEN SubSeq(w.ptr, 1, w.len)
    ELSE w.ptr \o [i \in 1..(w.len - Len(w.ptr)) |-> "?"]

\* LastQuery(): return dst.lastQuery
LastQuery == ReadString(lastQuery)

\* strings.Contains(hosts, ",")
Contains(str, ch) == \E i \in 1..Len(str) : str[i] = ch

RedisInit ==
    /\ client = Nil
    /\ cluster = Nil
    /\ db = 0
    /\ singlePush = Nil
    /\ store = [b \in Backends |-> [k \in AllKeys |-> Absent]]
    /\ cur = [p \in Procs |-> NoRedisCall]
    /\ last = NoReturn
    /\ ep = [k \in AllKeys |-> NoEpisode]
    /\ nredis = 0
    /\ started = <<>>
    /\ lastQuery = StringOf(<<>>)
    /\ DoNotLogQueries = FALSE
    /\ nlogged = 0

startSingle(d) ==
    /\ db' = d
    /\ client' = "single"
    /\ cluster' = Nil

\* Mutant of startCluster: the single-node handle is kept.
startCluster_KeepsClient ==
    /\ db' = 0
    /\ cluster' = "cluster"
    /\ client' = client

startCluster ==
    /\ db' = 0
    /\ cluster' = "cluster"
    /\ client' = Nil

\* Start returns only when the Ping succeeded (it exits the program otherwise).
\* It is called at the start of the application, before the first call.
Start ==
    /\ nredis = 0
    /\ \E hosts \in HostStrings, d \in DbNumbers :
          /\ IF Contains(hosts, ",") THEN startCluster ELSE startSingle(d)
          /\ started' = hosts
    /\ singlePush' = "script"
    /\ UNCHANGED <<store, cur, last, ep, nredis, lastQuery, DoNotLogQueries, nlogged,
                   fvVars, pgVars, chVars, convVars>>

\* The backend a call is sent to: "if dst.cluster != nil".
Backend == IF cluster # Nil THEN "cluster" ELSE "single"

\* What the server answers to each command on an entry e:
\* [val, err, post] - reply, error and the entry afterwards.
SrvGet(e) ==
    CASE e.type = "none" -> [val |-> "", err |-> RedisNil, post |-> e]
      [] e.type = "string" -> [val |-> e.str, err |-> Nil, post |-> e]
      [] OTHER -> [val |-> "", err |-> WrongType, post |-> e]

SrvSet(e, v, ex) == [val |-> "OK", err |-> Nil, post |-> [StrEntry(v) EXCEPT !.ttl = ex]]

SrvDel(e) == [val |-> "", err |-> Nil, post |-> Absent]

SrvLPush(e, v) ==
    IF e.type \in {"string", "stream"} THEN [val |-> 0, err |-> WrongType, post |-> e]
    ELSE [val |-> Len(e.list) + 1, err |-> Nil, post |-> ListEntry(<<v>> \o e.list)]

\* BLPOP: pops the head of the list; on an empty list the timeout expires
\* and the reply is nil.
SrvBLPop(e) ==
    CASE e.type = "none" -> [val |-> "", err |-> RedisNil, post |-> e]
      [] e.type = "list" -> [val |-> Head(e.list), err |-> Nil, post |-> ListEntry(Tail(e.list))]
      [] OTHER -> [val |-> "", err |-> WrongType, post |-> e]

\* Mutant of SrvSinglePush: the script pushes without looking at LLEN.
SrvSinglePush_NoCheck(e, v) ==
    IF e.type \in {"string", "stream"} THEN [val |-> 0, err |-> WrongType, post |-> e]
    ELSE [val |-> Len(e.list) + 1, err |-> Nil, post |-> ListEntry(<<v>> \o e.list)]

\* The singlePush script, run atomically by the server:
\* if LLEN(KEYS[1]) == 0 then return LPUSH(KEYS[1], ARGV[1]) else return -1.
SrvSinglePush(e, v) ==
    IF e.type \in {"string", "stream"} THEN [val |-> 0, err |-> WrongType, post |-> e]
    ELSE IF Len(e.list) = 0
         THEN [val |-> 1, err |-> Nil, post |-> ListEntry(<<v>>)]
         ELSE [val |-> 0 - 1, err |-> Nil, post |-> e]

NoSuchKey == "ERR The XGROUP subcommand requires the key to exist"

\* XGROUP CREATE key group $ MKSTREAM: creates the stream when the key is
\* absent and the group when the stream does not have it.
SrvXGroupCreateMkStream(e, g) ==
    CASE e.type = "none" -> [val |-> "OK", err |-> Nil, post |-> StreamEntry({g})]
      [] e.type = "stream" ->
            IF g \in e.groups THEN [val |-> "", err |-> BusyGroup, post |-> e]
            ELSE [val |-> "OK", err |-> Nil,
                  post |-> [e EXCEPT !.groups = @ \cup {g},
                                     !.cursor = @ \cup {<<g, e.lastid>>}]]
      [] OTHER -> [val |-> "", err |-> WrongType, post |-> e]

\* XGROUP DESTROY key group: removes the group and leaves the stream; the
\* reply is the number of groups destroyed.
SrvXGroupDestroy(e, g) ==
    CASE e.type = "none" -> [val |-> 0, err |-> NoSuchKey, post |-> e]
      [] e.type = "stream" ->
            [val |-> IF g \in e.groups THEN 1 ELSE 0, err |-> Nil,
             post |-> [e EXCEPT !.groups = @ \ {g},
                                !.cursor = {x \in @ : x[1] # g},
                                !.pending = {x \in @ : x[1] # g},
                                !.seen = {x \in @ : x[1] # g}]]
      [] OTHER -> [val |-> 0, err |-> WrongType, post |-> e]

\* LRANGE key start stop, for start 0: the elements up to stop, where -1
\* is the last element.
SrvLRange(e, args) ==
    IF e.type \in {"string", "stream"} THEN [val |-> <<>>, err |-> WrongType, post |-> e]
    ELSE LET stop == IF args[2] = "-1" THEN Len(e.list)
                     ELSE IF Len(e.list) = 0 THEN 0 ELSE 1
         IN [val |-> SubSeq(e.list, 1, stop), err |-> Nil, post |-> e]

SrvLLen(e) ==
    IF e.type \in {"string", "stream"} THEN [val |-> 0, err |-> WrongType, post |-> e]
    ELSE [val |-> Len(e.list), err |-> Nil, post |-> e]

\* TTL key: the remaining lifetime in seconds, -2 for a key that does not
\* exist and -1 for a key without a timeout.
SrvTTL(e) ==
    [val |-> IF e.type = "none" THEN 0 - 2 ELSE IF e.ttl = 0 THEN 0 - 1 ELSE e.ttl,
     err |-> Nil, post |-> e]

\* The value of a Set as the driver writes it on the wire: a string and a
\* []byte are sent as their bytes.
WireValue(v) == v.data

\* Mutant of SrvMultiSet: the commands are not queued in a transaction and
\* the connection breaks after the first.
SrvMultiSet_Partial(st, sets) ==
    IF sets = <<>> THEN st
    ELSE LET set == Head(sets)
             ex == IF set.TTL > 0 THEN set.TTL ELSE 0
         IN [st EXCEPT ![set.Key] = SrvSet(st[set.Key], WireValue(set.Value), ex).post]

\* MULTI, one SET per element of the batch in order, EXEC: the server
\* applies the queued commands to its keys st in one step.
RECURSIVE SrvMultiSet(_, _)
SrvMultiSet(st, sets) ==
    IF sets = <<>> THEN st
    ELSE LET set == Head(sets)
             ex == IF set.TTL > 0 THEN set.TTL ELSE 0
         IN SrvMultiSet([st EXCEPT ![set.Key] = SrvSet(st[set.Key], WireValue(set.Value), ex).post],
                        Tail(sets))

NoGroup == "NOGROUP No such key or consumer group"

\* The ID the server gives to the n-th message of a stream.
ID(n) == FormatNat(n) \o <<"-", "0">>

\* The number of the message of stream e with the given ID, 0 when the
\* stream has none.
MsgNumber(e, id) ==
    IF \E n \in 1..e.lastid : ID(n) = id
    THEN CHOOSE n \in 1..e.lastid : ID(n) = id
    ELSE 0

RECURSIVE Ascending(_)
Ascending(S) ==
    IF S = {} THEN <<>>
    ELSE LET m == CHOOSE x \in S : \A y \in S : x <= y
         IN <<m>> \o Ascending(S \ {m})

\* COUNT n: the first n, all of them when the driver leaves COUNT out
\* (Count = 0).
FirstN(q, n) == IF n = 0 \/ n >= Len(q) THEN q ELSE SubSeq(q, 1, n)

\* The IDs of the messages numbered in q.
IDs(q) == [i \in 1..Len(q) |-> ID(q[i])]

Cursor(e, g) == CHOOSE n \in 0..e.lastid : <<g, n>> \in e.cursor

\* XADD key [NOMKSTREAM] * field value: appends a message and replies its
\* ID; with NOMKSTREAM an absent key stays absent and the reply is nil.
SrvXAdd(e, nomk) ==
    CASE e.type = "none" ->
            IF nomk THEN [val |-> <<>>, err |-> RedisNil, post |-> e]
            ELSE [val |-> ID(1), err |-> Nil,
                  post |-> [StreamEntry({}) EXCEPT !.lastid = 1]]
      [] e.type = "stream" ->
            [val |-> ID(e.lastid + 1), err |-> Nil,
             post |-> [e EXCEPT !.lastid = @ + 1]]
      [] OTHER -> [val |-> <<>>, err |-> WrongType, post |-> e]

\* Mutant of SrvXReadGroup: the group's cursor stays where it was.
SrvXReadGroup_KeepsCursor(e, g, count) ==
    CASE e.type \in {"string", "list"} -> [val |-> <<>>, err |-> WrongType, post |-> e]
      [] e.type = "none" \/ g \notin e.groups -> [val |-> <<>>, err |-> NoGroup, post |-> e]
      [] OTHER ->
            LET new == {n \in 1..e.lastid : n > Cursor(e, g)}
                d == FirstN(Ascending(new), count)
                got == {<<g, d[i]>> : i \in 1..Len(d)}
            IN IF new = {} THEN [val |-> <<>>, err |-> RedisNil, post |-> e]
               ELSE [val |-> IDs(d), err |-> Nil,
                     post |-> [e EXCEPT !.pending = @ \cup got, !.seen = @ \cup got]]

\* XREADGROUP GROUP g consumer [COUNT n] BLOCK ms STREAMS key >: delivers
\* the messages after the group's cursor, oldest first, moves the cursor
\* past them and enters them in the group's pending list; the reply is nil
\* when the block timeout passes without a message.
SrvXReadGroup(e, g, count) ==
    CASE e.type \in {"string", "list"} -> [val |-> <<>>, err |-> WrongType, post |-> e]
      [] e.type = "none" \/ g \notin e.groups -> [val |-> <<>>, err |-> NoGroup, post |-> e]
      [] OTHER ->
            LET new == {n \in 1..e.lastid : n > Cursor(e, g)}
                d == FirstN(Ascending(new), count)
                got == {<<g, d[i]>> : i \in 1..Len(d)}
            IN IF new = {} THEN [val |-> <<>>, err |-> RedisNil, post |-> e]
               ELSE [val |-> IDs(d), err |-> Nil,
                     post |-> [e EXCEPT !.cursor = (@ \ {<<g, Cursor(e, g)>>})
                                                     \cup {<<g, d[Len(d)]>>},
                                        !.pending = @ \cup got,
                                        !.seen = @ \cup got]]

\* XAUTOCLAIM key g consumer min-idle 0-0 [COUNT n]: hands the group's
\* pending messages that were idle for min-idle to the consumer and
\* replies them, oldest first; they stay pending. The calls wait longer
\* than min-idle after the delivery.
SrvXAutoClaim(e, g, count) ==
    CASE e.type \in {"string", "list"} -> [val |-> <<>>, err |-> WrongType, post |-> e]
      [] e.type = "none" \/ g \notin e.groups -> [val |-> <<>>, err |-> NoGroup, post |-> e]
      [] OTHER ->
            LET idle == {n \in 1..e.lastid : <<g, n>> \in e.pending}
            IN [val |-> IDs(FirstN(Ascending(idle), count)), err |-> Nil, post |-> e]

\* XACK key g id: removes the message from the group's pending list and
\* replies the number of messages removed.
SrvXAck(e, g, id) ==
    IF e.type \in {"string", "list"} THEN [val |-> 0, err |-> WrongType, post |-> e]
    ELSE LET n == MsgNumber(e, id)
         IN IF <<g, n>> \in e.pending
            THEN [val |-> 1, err |-> Nil, post |-> [e EXCEPT !.pending = @ \ {<<g, n>>}]]
            ELSE [val |-> 0, err |-> Nil, post |-> e]

\* The command each method sends through the single-node handle:
\* dst.client.X(ctx, ...).
ClientRequest(c) ==
    CASE c.op = "Get" -> [cmd |-> "GET", key |-> c.key, args |-> <<>>]
      [] c.op = "Set" -> [cmd |-> "SET", key |-> c.key, args |-> <<c.val, c.ttl>>]
      [] c.op = "TTL" -> [cmd |-> "TTL", key |-> c.key, args |-> <<>>]
      [] c.op = "Del" -> [cmd |-> "DEL", key |-> c.key, args |-> <<>>]
      [] c.op = "LPush" -> [cmd |-> "LPUSH", key |-> c.key, args |-> <<c.val>>]
      [] c.op = "BLPop" -> [cmd |-> "BLPOP", key |-> c.key, args |-> <<"1">>]
      [] c.op = "SinglePush" -> [cmd |-> "EVALSHA", key |-> c.key, args |-> <<c.val>>]
      [] c.op = "LRange" -> [cmd |-> "LRANGE", key |-> c.key, args |-> <<"0", "-1">>]
      [] c.op = "LLen" -> [cmd |-> "LLEN", key |-> c.key, args |-> <<>>]
      [] c.op = "XGroupCreateMkStream" ->
            [cmd |-> "XGROUP CREATE MKSTREAM", key |-> c.key, args |-> <<c.group, "$">>]
      [] c.op = "XGroupDestroy" ->
            [cmd |-> "XGROUP DESTROY", key |-> c.key, args |-> <<c.group>>]
      [] c.op = "XAdd" ->
            [cmd |-> "XADD", key |-> c.key, args |-> <<c.nomk, "*", c.val>>]
      [] c.op = "XReadGroup" ->
            [cmd |-> "XREADGROUP", key |-> c.key, args |-> <<c.group, c.count, ">">>]
      [] c.op = "XAutoClaim" ->
            [cmd |-> "XAUTOCLAIM", key |-> c.key, args |-> <<c.group, c.count, "0-0">>]
      [] c.op = "XAck" ->
            [cmd |-> "XACK", key |-> c.key, args |-> <<c.group, c.id>>]

\* Mutant of ClusterRequest: the cluster branch of LRange asks for the
\* first element only.
ClusterRequest_Differs(c) ==
    IF c.op = "LRange" THEN [cmd |-> "LRANGE", key |-> c.key, args |-> <<"0", "0">>]
    ELSE ClientRequest(c)

\* The command each method sends through the cluster handle:
\* dst.cluster.X(ctx, ...).
ClusterRequest(c) ==
    CASE c.op = "Get" -> [cmd |-> "GET", key |-> c.key, args |-> <<>>]
      [] c.op = "Set" -> [cmd |-> "SET", key |-> c.key, args |-> <<c.val, c.ttl>>]
      [] c.op = "TTL" -> [cmd |-> "TTL", key |-> c.key, args |-> <<>>]
      [] c.op = "Del" -> [cmd |-> "DEL", key |-> c.key, args |-> <<>>]
      [] c.op = "LPush" -> [cmd |-> "LPUSH", key |-> c.key, args |-> <<c.val>>]
      [] c.op = "BLPop" -> [cmd |-> "BLPOP", key |-> c.key, args |-> <<"1">>]
      [] c.op = "SinglePush" -> [cmd |-> "EVALSHA", key |-> c.key, args |-> <<c.val>>]
      [] c.op = "LRange" -> [cmd |-> "LRANGE", key |-> c.key, args |-> <<"0", "-1">>]
      [] c.op = "LLen" -> [cmd |-> "LLEN", key |-> c.key, args |-> <<>>]
      [] c.op = "XGroupCreateMkStream" ->
            [cmd |-> "XGROUP CREATE MKSTREAM", key |-> c.key, args |-> <<c.group, "$">>]
      [] c.op = "XGroupDestroy" ->
            [cmd |-> "XGROUP DESTROY", key |-> c.key, args |-> <<c.group>>]
      [] c.op = "XAdd" ->
            [cmd |-> "XADD", key |-> c.key, args |-> <<c.nomk, "*", c.val>>]
      [] c.op = "XReadGroup" ->
            [cmd |-> "XREADGROUP", key |-> c.key, args |-> <<c.group, c.count, ">">>]
      [] c.op = "XAutoClaim" ->
            [cmd |-> "XAUTOCLAIM", key |-> c.key, args |-> <<c.group, c.count, "0-0">>]
      [] c.op = "XAck" ->
            [cmd |-> "XACK", key |-> c.key, args |-> <<c.group, c.id>>]

\* "if dst.cluster != nil { dst.cluster.X(...) } else { dst.client.X(...) }"
Request(c) == IF cluster # Nil THEN ClusterRequest(c) ELSE ClientRequest(c)

\* The server's answer to a request on entry e.
Serve(req, e) ==
    CASE req.cmd = "GET" -> SrvGet(e)
      [] req.cmd = "SET" -> SrvSet(e, req.args[1], req.args[2])
      [] req.cmd = "TTL" -> SrvTTL(e)
      [] req.cmd = "DEL" -> SrvDel(e)
      [] req.cmd = "LPUSH" -> SrvLPush(e, req.args[1])
      [] req.cmd = "BLPOP" -> SrvBLPop(e)
      [] req.cmd = "EVALSHA" -> SrvSinglePush(e, req.args[1])
      [] req.cmd = "LRANGE" -> SrvLRange(e, req.args)
      [] req.cmd = "LLEN" -> SrvLLen(e)
      [] req.cmd = "XGROUP CREATE MKSTREAM" -> SrvXGroupCreateMkStream(e, req.args[1])
      [] req.cmd = "XGROUP DESTROY" -> SrvXGroupDestroy(e, req.args[1])
      [] req.cmd = "XADD" -> SrvXAdd(e, req.args[1])
      [] req.cmd = "XREADGROUP" -> SrvXReadGroup(e, req.args[1], req.args[2])
      [] req.cmd = "XAUTOCLAIM" -> SrvXAutoClaim(e, req.args[1], req.args[2])
      [] req.cmd = "XACK" -> SrvXAck(e, req.args[1], req.args[2])

\* The value Result() carries together with an error: the zero value of
\* the reply's type.
ZeroReply(cmd) ==
    CASE cmd \in {"LPUSH", "LLEN", "EVALSHA", "XGROUP DESTROY", "XACK", "TTL"} -> 0
      [] cmd \in {"LRANGE", "XADD", "XREADGROUP", "XAUTOCLAIM"} -> <<>>
      [] OTHER -> ""

\* How a driver call can go: the reply arrives, the command never reaches
\* the server, or the server runs it and the reply is lost.
Outcomes == {"ok", "unsent", "lost"}

\* Mutant of Driver: a command whose reply was lost is sent once more.
Driver_Retry(e, io, req) ==
    LET srv == Serve(req, e)
        again == Serve(req, srv.post)
    IN CASE io = "unsent" ->
              [val |-> ZeroReply(req.cmd), err |-> IOError, post |-> e, ran |-> FALSE,
               req |-> req, io |-> io, attempts |-> 1]
         [] io = "lost" ->
              [val |-> IF again.err = Nil THEN again.val ELSE ZeroReply(req.cmd),
               err |-> again.err, post |-> again.post, ran |-> TRUE,
               req |-> req, io |-> io, attempts |-> 2]
         [] OTHER ->
              [val |-> IF srv.err = Nil THEN srv.val ELSE ZeroReply(req.cmd),
               err |-> srv.err, post |-> srv.post, ran |-> TRUE,
               req |-> req, io |-> io, attempts |-> 1]

\* One driver call of request req on entry e: the command is sent once;
\* the server runs it atomically on the key unless it was not sent;
\* without a reply the driver reports an I/O error.
Driver(e, io, req) ==
    LET srv == Serve(req, e)
    IN CASE io = "unsent" ->
              [val |-> ZeroReply(req.cmd), err |-> IOError, post |-> e, ran |-> FALSE,
               req |-> req, io |-> io, attempts |-> 1]
         [] io = "lost" ->
              [val |-> ZeroReply(req.cmd), err |-> IOError, post |-> srv.post, ran |-> TRUE,
               req |-> req, io |-> io, attempts |-> 1]
         [] OTHER ->
              [val |-> IF srv.err = Nil THEN srv.val ELSE ZeroReply(req.cmd),
               err |-> srv.err, post |-> srv.post, ran |-> TRUE,
               req |-> req, io |-> io, attempts |-> 1]

InFlight(p, op) == cur[p].op = op

\* History: a command other than SinglePush that changes a key is recorded
\* in the key's group of SinglePush calls.
Touch(k, op, changed) ==
    ep' = IF ep[k].open /\ changed
          THEN [ep EXCEPT ![k].touched = ep[k].touched \cup {op}]
          ELSE ep

\* The name of a method in its log line.
Verb(op) ==
    CASE op = "Get" -> "GET"
      [] op = "Set" -> "SET"
      [] op = "Del" -> "DEL"
      [] op = "LPush" -> "LPUSH"
      [] op = "BLPop" -> "BLPOP"
      [] op = "SinglePush" -> "SINGLEPUSH"
      [] op = "LRange" -> "LRANGE"
      [] op = "LLen" -> "LLEN"
      [] op = "XGroupCreateMkStream" -> "XGROUP CREATE MKSTREAM"
      [] op = "XGroupDestroy" -> "XGROUP DESTROY"
      [] op = "XAdd" -> "XADD"
      [] op = "XReadGroup" -> "XREADGROUP"
      [] op = "XAutoClaim" -> "XAUTOCLAIM"
      [] op = "XAck" -> "XACK"
      [] op = "TTL" -> "TTL"
      [] op = "MultiSet" -> "MULTISET"

\* The line a method renders for its call: "Redis(<db>) <VERB> (<ms>) <key>".
\* The elapsed time is left out.
QueryLine(c) == <<"Redis(", FormatNat(db), ")", Verb(c.op), c.key>>

\* Mutant of logQuery: the line is emitted whatever the flag says.
logQuery_Always(line) ==
    /\ lastQuery' = StringOf(line)
    /\ nlogged' = nlogged + 1
    /\ UNCHANGED DoNotLogQueries

\* logQuery: stores the rendered line and hands it to Debug unless
\* DoNotLogQueries is set.
logQuery(line) ==
    /\ lastQuery' = StringOf(line)
    /\ nlogged' = IF DoNotLogQueries THEN nlogged ELSE nlogged + 1
    /\ UNCHANGED DoNotLogQueries

\* The call of p returns ret after its driver call r and its log line;
\* the key holds r.post afterwards.
Finish(p, r, ret) ==
    /\ store' = [store EXCEPT ![Backend][cur[p].key] = r.post]
    /\ logQuery(QueryLine(cur[p]))
    /\ last' = [op |-> cur[p].op, key |-> cur[p].key, val |-> cur[p].val,
                def |-> cur[p].def, group |-> cur[p].group, count |-> cur[p].count,
                nomk |-> cur[p].nomk, id |-> cur[p].id, ttl |-> cur[p].ttl,
                sets |-> cur[p].sets,
                backend |-> Backend,
                req |-> r.req, io |-> r.io, attempts |-> r.attempts,
                pre |-> store[Backend][cur[p].key], post |-> r.post,
                ran |-> r.ran, drvErr |-> r.err, ret |-> ret,
                quiet |-> DoNotLogQueries, emitted |-> nlogged' - nlogged,
                line |-> <<>>, seen |-> <<>>, lines |-> {}, overlap |-> FALSE]
    /\ cur' = [cur EXCEPT ![p] = NoRedisCall]
    /\ UNCHANGED <<client, cluster, db, singlePush, nredis, started, fvVars, pgVars, chVars, convVars>>

\* History: a SinglePush call joins the group of SinglePush calls in
\* flight on its key, or opens one.
JoinGroup(k, op) ==
    ep' = IF op # "SinglePush" THEN ep
          ELSE IF ep[k].open
               THEN [ep EXCEPT ![k].joined = ep[k].joined + 1]
               ELSE [ep EXCEPT ![k] =
                       [NoEpisode EXCEPT !.open = TRUE, !.joined = 1,
                                         !.empty = store[Backend][k].type = "none"]]

\* A goroutine calls a method of the client.
Invoke(p) ==
    /\ cur[p].op = "none"
    /\ client # Nil \/ cluster # Nil
    /\ nredis < MaxRedisCalls
    /\ \E op \in {"Get", "Set", "Del", "LPush", "BLPop", "SinglePush"}, k \in Keys :
          /\ cur' = [cur EXCEPT ![p] = [NoRedisCall EXCEPT !.op = op, !.key = k,
                                                           !.val = p, !.def = "def"]]
          /\ JoinGroup(k, op)
    /\ nredis' = nredis + 1
    /\ UNCHANGED <<client, cluster, db, singlePush, store, last, started,
                   lastQuery, DoNotLogQueries, nlogged, fvVars, pgVars, chVars, convVars>>

\* Mutant of GetResult: a nil reply is returned as an error.
GetResult_NoDefault(r, def) ==
    IF r.err # Nil THEN [val |-> "", err |-> r.err]
    ELSE [val |-> r.val, err |-> Nil]

\* Result translation of Get.
GetResult(r, def) ==
    IF r.err # Nil
    THEN IF r.err = RedisNil THEN [val |-> def, err |-> Nil]
         ELSE [val |-> "", err |-> r.err]
    ELSE [val |-> r.val, err |-> Nil]

Get(p) ==
    /\ InFlight(p, "Get")
    /\ \E io \in Outcomes :
          LET r == Driver(store[Backend][cur[p].key], io, Request(cur[p]))
          IN Finish(p, r, GetResult(r, cur[p].def))
    /\ UNCHANGED ep

\* Set: the key expires after the given number of seconds, and does not
\* expire when the expiration is 0.
Set(p) ==
    /\ InFlight(p, "Set")
    /\ \E io \in Outcomes :
          LET e == store[Backend][cur[p].key]
              r == Driver(e, io, Request(cur[p]))
          IN Finish(p, r, [val |-> None, err |-> r.err])
             /\ Touch(cur[p].key, "Set", r.post # e)

Del(p) ==
    /\ InFlight(p, "Del")
    /\ \E io \in Outcomes :
          LET e == store[Backend][cur[p].key]
              r == Driver(e, io, Request(cur[p]))
          IN Finish(p, r, [val |-> None, err |-> r.err])
             /\ Touch(cur[p].key, "Del", r.post # e)

LPush(p) ==
    /\ InFlight(p, "LPush")
    /\ \E io \in Outcomes :
          LET e == store[Backend][cur[p].key]
              r == Driver(e, io, Request(cur[p]))
          IN Finish(p, r, [val |-> r.val, err |-> r.err])
             /\ Touch(cur[p].key, "LPush", r.post # e)

\* Result translation of BLPop.
BLPopResult(r, def) ==
    IF r.err # Nil
    THEN IF r.err = RedisNil THEN [val |-> def, err |-> Nil]
         ELSE [val |-> "", err |-> r.err]
    ELSE [val |-> r.val, err |-> Nil]

BLPop(p) ==
    /\ InFlight(p, "BLPop")
    /\ \E io \in Outcomes :
          LET e == store[Backend][cur[p].key]
              r == Driver(e, io, Request(cur[p]))
          IN Finish(p, r, BLPopResult(r, cur[p].def))
             /\ Touch(cur[p].key, "BLPop", r.post # e)

\* Mutant of SinglePushResult: the script result -1 is not translated.
SinglePushResult_NoSentinel(r) ==
    IF r.err # Nil THEN r.err ELSE Nil

\* Result translation of SinglePush.
SinglePushResult(r) ==
    IF r.err # Nil THEN r.err
    ELSE IF r.val = 0 - 1 THEN ErrorListIsNotEmpty
    ELSE Nil

\* History: the finished call is counted in its group, which closes when
\* none of its calls is in flight any more.
CountInGroup(p, err) ==
    LET k == cur[p].key
        left == {q \in Procs \ {p} : InFlight(q, "SinglePush") /\ cur[q].key = k}
    IN ep' = [ep EXCEPT
                ![k].nilc = ep[k].nilc + (IF err = Nil THEN 1 ELSE 0),
                ![k].nec = ep[k].nec + (IF err = ErrorListIsNotEmpty THEN 1 ELSE 0),
                ![k].errc = ep[k].errc
                            + (IF err \notin {Nil, ErrorListIsNotEmpty} THEN 1 ELSE 0),
                ![k].open = left # {}]

SinglePush(p) ==
    /\ InFlight(p, "SinglePush")
    /\ singlePush # Nil
    /\ \E io \in Outcomes :
          LET e == store[Backend][cur[p].key]
              r == Driver(e, io, Request(cur[p]))
          IN Finish(p, r, [val |-> None, err |-> SinglePushResult(r)])
             /\ CountInGroup(p, SinglePushResult(r))

RedisNext ==
    \/ Start
    \/ \E p \in Procs : Invoke(p)
    \/ \E p \in Procs : Get(p)
    \/ \E p \in Procs : Set(p)
    \/ \E p \in Procs : Del(p)
    \/ \E p \in Procs : LPush(p)
    \/ \E p \in Procs : BLPop(p)
    \/ \E p \in Procs : SinglePush(p)

(* The same client used by one caller, one call after the other.           *)

\* Number of calls of the single caller in one run.
MaxSeqCalls == 2

Caller == "p1"

SeqOps == {"Get", "Set", "Del", "LPush", "BLPop", "SinglePush", "LRange", "LLen"}

LRange(p) ==
    /\ InFlight(p, "LRange")
    /\ \E io \in Outcomes :
          LET e == store[Backend][cur[p].key]
              r == Driver(e, io, Request(cur[p]))
          IN Finish(p, r, [val |-> r.val, err |-> r.err])
    /\ UNCHANGED ep

LLen(p) ==
    /\ InFlight(p, "LLen")
    /\ \E io \in Outcomes :
          LET e == store[Backend][cur[p].key]
              r == Driver(e, io, Request(cur[p]))
          IN Finish(p, r, [val |-> r.val, err |-> r.err])
    /\ UNCHANGED ep

\* The caller sets or clears the exported field DoNotLogQueries.
SetDoNotLogQueries ==
    /\ cur[Caller].op = "none"
    /\ DoNotLogQueries' = ~DoNotLogQueries
    /\ UNCHANGED <<client, cluster, db, singlePush, store, cur, last, ep, nredis,
                   started, lastQuery, nlogged, fvVars, pgVars, chVars, convVars>>

\* The caller calls a method of the client.
Call ==
    /\ cur[Caller].op = "none"
    /\ client # Nil \/ cluster # Nil
    /\ nredis < MaxSeqCalls
    /\ \E op \in SeqOps, k \in Keys :
          /\ cur' = [cur EXCEPT ![Caller] = [NoRedisCall EXCEPT !.op = op, !.key = k,
                                                                !.val = Caller, !.def = "def"]]
          /\ JoinGroup(k, op)
    /\ nredis' = nredis + 1
    /\ UNCHANGED <<client, cluster, db, singlePush, store, last, started,
                   lastQuery, DoNotLogQueries, nlogged, fvVars, pgVars, chVars, convVars>>

RedisSeqNext ==
    \/ Start
    \/ SetDoNotLogQueries
    \/ Call
    \/ Get(Caller)
    \/ Set(Caller)
    \/ Del(Caller)
    \/ LPush(Caller)
    \/ BLPop(Caller)
    \/ SinglePush(Caller)
    \/ LRange(Caller)
    \/ LLen(Caller)

(* Consumer groups of a stream, used by one caller.                        *)

\* Number of calls on the stream in one run.
MaxStreamCalls == 3

\* Mutant of XGroupCreateMkStreamResult: the driver's error is returned as
\* it is.
XGroupCreateMkStreamResult_NoSentinel(r) == r.err

\* Result translation of XGroupCreateMkStream.
XGroupCreateMkStreamResult(r) ==
    IF r.err # Nil /\ r.err = BusyGroup THEN ErrorGroupAlreadyExists ELSE r.err

XGroupCreateMkStream(p) ==
    /\ InFlight(p, "XGroupCreateMkStream")
    /\ \E io \in Outcomes :
          LET e == store[Backend][cur[p].key]
              r == Driver(e, io, Request(cur[p]))
          IN Finish(p, r, [val |-> None, err |-> XGroupCreateMkStreamResult(r)])
             /\ Touch(cur[p].key, "XGroupCreateMkStream", r.post # e)

XGroupDestroy(p) ==
    /\ InFlight(p, "XGroupDestroy")
    /\ \E io \in Outcomes :
          LET e == store[Backend][cur[p].key]
              r == Driver(e, io, Request(cur[p]))
          IN Finish(p, r, [val |-> None, err |-> r.err])
             /\ Touch(cur[p].key, "XGroupDestroy", r.post # e)

\* The caller creates or destroys a group of the stream, or pushes to the
\* key as to a list.
CallStream ==
    /\ cur[Caller].op = "none"
    /\ client # Nil \/ cluster # Nil
    /\ nredis < MaxStreamCalls
    /\ \E k \in StreamKeys :
          \/ \E op \in {"XGroupCreateMkStream", "XGroupDestroy"}, g \in Groups :
                cur' = [cur EXCEPT ![Caller] = [NoRedisCall EXCEPT !.op = op, !.key = k,
                                                                  !.val = Caller, !.def = "def",
                                                                  !.group = g]]
          \/ cur' = [cur EXCEPT ![Caller] = [NoRedisCall EXCEPT !.op = "LPush", !.key = k,
                                                                !.val = Caller, !.def = "def"]]
    /\ nredis' = nredis + 1
    /\ UNCHANGED <<client, cluster, db, singlePush, store, last, ep, started,
                   lastQuery, DoNotLogQueries, nlogged, fvVars, pgVars, chVars, convVars>>

RedisStreamNext ==
    \/ Start
    \/ CallStream
    \/ XGroupCreateMkStream(Caller)
    \/ XGroupDestroy(Caller)
    \/ LPush(Caller)

(* Messages of a stream: add, group read, auto-claim and acknowledge.      *)

\* Number of calls on the stream's messages in one run.
MaxMsgCalls == 6

\* The Count a caller passes to XReadGroup and XAutoClaim.
Counts == {1, 2}

XAdd(p) ==
    /\ InFlight(p, "XAdd")
    /\ \E io \in Outcomes :
          LET e == store[Backend][cur[p].key]
              r == Driver(e, io, Request(cur[p]))
          IN Finish(p, r, [val |-> r.val, err |-> r.err])
             /\ Touch(cur[p].key, "XAdd", r.post # e)

\* Mutant of XReadGroupResult: the driver's nil reply is returned as an
\* error.
XReadGroupResult_NoNil(r) == [val |-> r.val, err |-> r.err]

\* Result translation of XReadGroup.
XReadGroupResult(r) ==
    IF r.err # Nil /\ r.err = RedisNil THEN [val |-> <<>>, err |-> Nil]
    ELSE [val |-> r.val, err |-> r.err]

XReadGroup(p) ==
    /\ InFlight(p, "XReadGroup")
    /\ \E io \in Outcomes :
          LET e == store[Backend][cur[p].key]
              r == Driver(e, io, Request(cur[p]))
          IN Finish(p, r, XReadGroupResult(r))
             /\ Touch(cur[p].key, "XReadGroup", r.post # e)

XAutoClaim(p) ==
    /\ InFlight(p, "XAutoClaim")
    /\ \E io \in Outcomes :
          LET e == store[Backend][cur[p].key]
              r == Driver(e, io, Request(cur[p]))
          IN Finish(p, r, [val |-> r.val, err |-> r.err])
             /\ Touch(cur[p].key, "XAutoClaim", r.post # e)

XAck(p) ==
    /\ InFlight(p, "XAck")
    /\ \E io \in Outcomes :
          LET e == store[Backend][cur[p].key]
              r == Driver(e, io, Request(cur[p]))
          IN Finish(p, r, [val |-> r.val, err |-> r.err])
             /\ Touch(cur[p].key, "XAck", r.post # e)

\* The caller creates the group, adds a message, reads for the group,
\* claims the group's pending messages or acknowledges a message.
CallMsg ==
    /\ cur[Caller].op = "none"
    /\ client # Nil \/ cluster # Nil
    /\ nredis < MaxMsgCalls
    /\ \E k \in StreamKeys, g \in MsgGroups :
          LET c == [NoRedisCall EXCEPT !.key = k, !.val = Caller, !.group = g]
          IN \/ cur' = [cur EXCEPT ![Caller] = [c EXCEPT !.op = "XGroupCreateMkStream"]]
             \/ \E b \in BOOLEAN :
                   cur' = [cur EXCEPT ![Caller] = [c EXCEPT !.op = "XAdd", !.nomk = b]]
             \/ \E op \in {"XReadGroup", "XAutoClaim"}, n \in Counts :
                   cur' = [cur EXCEPT ![Caller] = [c EXCEPT !.op = op, !.count = n]]
             \/ \E n \in 1..MaxMsgCalls :
                   cur' = [cur EXCEPT ![Caller] = [c EXCEPT !.op = "XAck", !.id = ID(n)]]
    /\ nredis' = nredis + 1
    /\ UNCHANGED <<client, cluster, db, singlePush, store, last, ep, started,
                   lastQuery, DoNotLogQueries, nlogged, fvVars, pgVars, chVars, convVars>>

RedisMsgNext ==
    \/ Start
    \/ CallMsg
    \/ XGroupCreateMkStream(Caller)
    \/ XAdd(Caller)
    \/ XReadGroup(Caller)
    \/ XAutoClaim(Caller)
    \/ XAck(Caller)

(* Keys with a lifetime: Set with an expiration, MultiSet and TTL, used by *)
(* two goroutines while time passes.                                       *)

\* Number of calls started in one run.
MaxTTLCalls == 3

TTLProcs == {"p1", "p2"}

\* time.Second, in nanoseconds.
Second == 1000000000

\* The expirations callers pass, in seconds.
Expirations == {0, 2}

\* The batches callers pass to MultiSet: string and []byte values, with
\* and without a lifetime.
Batches ==
    {<<[Key |-> "k1", Value |-> [kind |-> "string", data |-> "a"], TTL |-> 2],
       [Key |-> "s1", Value |-> [kind |-> "[]byte", data |-> "b"], TTL |-> 0]>>,
     <<[Key |-> "k1", Value |-> [kind |-> "[]byte", data |-> "c"], TTL |-> 0],
       [Key |-> "s1", Value |-> [kind |-> "string", data |-> "d"], TTL |-> 1]>>}

\* The driver's TTL(...).Result(): a reply of -2 or -1 becomes a duration
\* of as many nanoseconds, any other reply so many seconds.
DurationReply(n) == IF n \in {0 - 2, 0 - 1} THEN n ELSE n * Second

\* int64(ttl.Seconds()): the whole seconds of a duration, rounded towards
\* zero.
Seconds(d) == IF d >= 0 THEN d \div Second ELSE 0 - ((0 - d) \div Second)

\* Result translation of TTL.
TTLResult(r) ==
    [val |-> Seconds(IF r.err = Nil THEN DurationReply(r.val) ELSE 0), err |-> r.err]

TTL(p) ==
    /\ InFlight(p, "TTL")
    /\ \E io \in Outcomes :
          LET r == Driver(store[Backend][cur[p].key], io, Request(cur[p]))
          IN Finish(p, r, TTLResult(r))
    /\ UNCHANGED ep

\* MultiSet: the batch is queued in a transaction pipeline, which Exec
\* sends; the call returns Exec's error.
MultiSet(p) ==
    /\ InFlight(p, "MultiSet")
    /\ \E io \in Outcomes :
          LET pre == store[Backend]
              post == IF io = "unsent" THEN pre ELSE SrvMultiSet(pre, cur[p].sets)
              err == IF io = "ok" THEN Nil ELSE IOError
          IN /\ store' = [store EXCEPT ![Backend] = post]
             /\ logQuery(QueryLine(cur[p]))
             /\ last' = [NoReturn EXCEPT !.op = "MultiSet", !.sets = cur[p].sets,
                                         !.backend = Backend, !.io = io, !.attempts = 1,
                                         !.pre = pre, !.post = post, !.ran = io # "unsent",
                                         !.drvErr = err,
                                         !.ret = [val |-> None, err |-> err],
                                         !.quiet = DoNotLogQueries,
                                         !.emitted = nlogged' - nlogged]
    /\ cur' = [cur EXCEPT ![p] = NoRedisCall]
    /\ UNCHANGED <<client, cluster, db, singlePush, nredis, started, ep,
                   fvVars, pgVars, chVars, convVars>>

\* A second passes: lifetimes shorten and keys whose lifetime ends are
\* removed.
Tick ==
    /\ \E b \in Backends, k \in AllKeys : store[b][k].ttl > 0
    /\ store' = [b \in Backends |-> [k \in AllKeys |->
                    LET e == store[b][k]
                    IN IF e.ttl = 0 THEN e
                       ELSE IF e.ttl = 1 THEN Absent
                       ELSE [e EXCEPT !.ttl = @ - 1]]]
    /\ UNCHANGED <<client, cluster, db, singlePush, cur, last, ep, nredis, started,
                   lastQuery, DoNotLogQueries, nlogged, fvVars, pgVars, chVars, convVars>>

\* A goroutine calls Set, Get, TTL or MultiSet.
CallTTL(p) ==
    /\ cur[p].op = "none"
    /\ client # Nil \/ cluster # Nil
    /\ nredis < MaxTTLCalls
    /\ \/ \E k \in AllKeys, ex \in Expirations :
             cur' = [cur EXCEPT ![p] = [NoRedisCall EXCEPT !.op = "Set", !.key = k,
                                                          !.val = p, !.ttl = ex]]
       \/ \E k \in AllKeys, op \in {"Get", "TTL"} :
             cur' = [cur EXCEPT ![p] = [NoRedisCall EXCEPT !.op = op, !.key = k,
                                                          !.def = "def"]]
       \/ \E b \in Batches :
             cur' = [cur EXCEPT ![p] = [NoRedisCall EXCEPT !.op = "MultiSet", !.sets = b]]
    /\ nredis' = nredis + 1
    /\ UNCHANGED <<client, cluster, db, singlePush, store, last, ep, started,
                   lastQuery, DoNotLogQueries, nlogged, fvVars, pgVars, chVars, convVars>>

RedisTTLNext ==
    \/ Start
    \/ Tick
    \/ \E p \in TTLProcs : CallTTL(p)
    \/ \E p \in TTLProcs : Set(p)
    \/ \E p \in TTLProcs : Get(p)
    \/ \E p \in TTLProcs : TTL(p)
    \/ \E p \in TTLProcs : MultiSet(p)

(* Two goroutines on one client, the steps of each call taken one by one:  *)
(* the driver call, the two word stores of dst.lastQuery = ... in          *)
(* logQuery, the read of dst.lastQuery for Debug, and the return.          *)

\* Number of calls started in one run.
MaxRaceCalls == 2

RaceProcs == {"p1", "p2"}

RaceOps == {"Get", "LPush"}

VerbText(op) == IF op = "Get" THEN <<"G", "E", "T">> ELSE <<"L", "P", "U", "S", "H">>

KeyText(k) == IF k = "k1" THEN <<"k", "1">> ELSE <<"s", "1">>

\* The line a method renders, character by character:
\* "Redis(<db>) <VERB> <key>" (the elapsed time is left out).
LineText(c) ==
    <<"R", "e", "d", "i", "s", "(">> \o FormatNat(db) \o <<")", " ">>
    \o VerbText(c.op) \o <<" ">> \o KeyText(c.key)

\* A goroutine calls Get or LPush.
RaceCall(p) ==
    /\ cur[p].op = "none"
    /\ client # Nil \/ cluster # Nil
    /\ nredis < MaxRaceCalls
    /\ \E op \in RaceOps, k \in Keys :
          cur' = [cur EXCEPT ![p] = [NoRedisCall EXCEPT !.op = op, !.key = k, !.val = p,
                                                       !.def = "def", !.pc = "driver"]]
    /\ nredis' = nredis + 1
    /\ UNCHANGED <<client, cluster, db, singlePush, store, last, ep, started,
                   lastQuery, DoNotLogQueries, nlogged, fvVars, pgVars, chVars, convVars>>

\* The driver call of the method; what the method is going to return is
\* fixed by the driver's reply.
RaceDriver(p) ==
    /\ cur[p].op # "none"
    /\ cur[p].pc = "driver"
    /\ \E io \in Outcomes :
          LET r == Driver(store[Backend][cur[p].key], io, Request(cur[p]))
              ret == IF cur[p].op = "Get" THEN GetResult(r, cur[p].def)
                     ELSE [val |-> r.val, err |-> r.err]
          IN /\ store' = [store EXCEPT ![Backend][cur[p].key] = r.post]
             /\ cur' = [cur EXCEPT ![p].pc = "log", ![p].res = ret,
                                   ![p].todo = {"ptr", "len"}]
    /\ UNCHANGED <<client, cluster, db, singlePush, last, ep, nredis, started,
                   lastQuery, DoNotLogQueries, nlogged, fvVars, pgVars, chVars, convVars>>

\* logQuery: dst.lastQuery = fmt.Sprintf(...) stores the two words of the
\* string one after the other, in the order the build chose, with no lock
\* held.
RaceStore(p) ==
    /\ cur[p].pc = "log"
    /\ \E w \in cur[p].todo :
          /\ lastQuery' = IF w = "ptr"
                          THEN [lastQuery EXCEPT !.ptr = LineText(cur[p])]
                          ELSE [lastQuery EXCEPT !.len = Len(LineText(cur[p]))]
          /\ cur' = [cur EXCEPT ![p].todo = @ \ {w},
                                ![p].pc = IF cur[p].todo = {w} THEN "debug" ELSE "log"]
    /\ UNCHANGED <<client, cluster, db, singlePush, store, last, ep, nredis, started,
                   DoNotLogQueries, nlogged, fvVars, pgVars, chVars, convVars>>

\* logQuery hands dst.lastQuery to Debug unless DoNotLogQueries is set, and
\* the method returns; the caller then reads LastQuery().
RaceReturn(p) ==
    /\ cur[p].pc = "debug"
    /\ nlogged' = IF DoNotLogQueries THEN nlogged ELSE nlogged + 1
    /\ last' = [NoReturn EXCEPT !.op = cur[p].op, !.key = cur[p].key, !.val = cur[p].val,
                                !.def = cur[p].def, !.backend = Backend,
                                !.ret = cur[p].res, !.quiet = DoNotLogQueries,
                                !.emitted = nlogged' - nlogged,
                                !.line = LineText(cur[p]), !.seen = LastQuery,
                                !.lines = last.lines \cup {LineText(cur[p])},
                                !.overlap = \E q \in RaceProcs \ {p} : cur[q].op # "none"]
    /\ cur' = [cur EXCEPT ![p] = NoRedisCall]
    /\ UNCHANGED <<client, cluster, db, singlePush, store, ep, nredis, started,
                   lastQuery, DoNotLogQueries, fvVars, pgVars, chVars, convVars>>

RedisRaceNext ==
    \/ Start
    \/ \E p \in RaceProcs : RaceCall(p)
    \/ \E p \in RaceProcs : RaceDriver(p)
    \/ \E p \in RaceProcs : RaceStore(p)
    \/ \E p \in RaceProcs : RaceReturn(p)

-----------------------------------------------------------------------------
(* postgres.PostgresClient: Insert, InsertUUID, Update and Delete          *)

\* Number of Insert / InsertUUID calls started in one run.
MaxPGCalls == 2

Lit_RETURNING == <<" ", "R", "E", "T", "U", "R", "N", "I", "N", "G", " ", "i", "d">>

\* The INSERT statements callers pass: one or two rows into a table with
\* integer identifiers, one row into a table with UUID identifiers, and a
\* statement the database rejects.
PGQueries == {<<"I", "1">>, <<"I", "2">>, <<"U", "1">>, <<"X">>}

PGError == "pg error"

NoPGCall ==
    [op |-> "none", pos |-> "idle", query |-> <<>>, stmt |-> <<>>, tx |-> 0,
     rows |-> <<>>, ids |-> <<>>, err |-> Nil, log |-> <<>>,
     execErr |-> Nil, tag |-> <<>>, n |-> 0, failed |-> None]

Event(ev, tx, stmt) == [ev |-> ev, tx |-> tx, stmt |-> stmt]

PGInit ==
    /\ pool = Nil
    /\ pgcall = NoPGCall
    /\ pgtable = <<>>
    /\ seq = 1
    /\ npg = 0

\* Start returns only when the pool is connected (it exits the program
\* otherwise).
PGStart ==
    /\ pool = Nil
    /\ pool' = "pool"
    /\ UNCHANGED <<pgcall, pgtable, seq, npg, fvVars, redisVars, chVars, convVars>>

HasSuffix(str, suffix) ==
    /\ Len(str) >= Len(suffix)
    /\ SubSeq(str, Len(str) - Len(suffix) + 1, Len(str)) = suffix

\* What the database does with a statement: whether it accepts it, the rows
\* it inserts (identifiers from seq on) and the rows it returns - the
\* inserted rows' identifiers if the statement ends in RETURNING id, none
\* otherwise.
SrvInsert(stmt, next) ==
    LET returning == HasSuffix(stmt, Lit_RETURNING)
        base == IF returning THEN SubSeq(stmt, 1, Len(stmt) - Len(Lit_RETURNING)) ELSE stmt
        kind == IF base[1] = "U" THEN "uuid" ELSE "int"
        n == IF base = <<"I", "2">> THEN 2 ELSE 1
        inserted == [i \in 1..n |-> [kind |-> kind, n |-> next + i - 1]]
    IN IF base \notin {<<"I", "1">>, <<"I", "2">>, <<"U", "1">>}
       THEN [ok |-> FALSE, inserted |-> <<>>, rows |-> <<>>]
       ELSE [ok |-> TRUE, inserted |-> inserted,
             rows |-> IF returning THEN inserted ELSE <<>>]

\* Scanning a returned identifier into "var n uint" / "var n uuid.UUID".
ScanOk(op, v) == IF op = "Insert" THEN v.kind = "int" ELSE v.kind = "uuid"
Scan(op, v) == IF op = "Insert" THEN v.n ELSE [uuid |-> v.n]

\* pgx.ForEachRow over the returned rows: every row scanned is appended to
\* ids; the loop stops at the first row that cannot be scanned or read
\* (failAt, 0 for none).
ForEachRow(op, rows, failAt) ==
    LET bad == {i \in 1..Len(rows) : ~ScanOk(op, rows[i]) \/ i = failAt}
        stop == IF bad = {} THEN Len(rows) + 1
                ELSE CHOOSE i \in bad : \A j \in bad : i <= j
    IN [ids |-> [i \in 1..(stop - 1) |-> Scan(op, rows[i])],
        err |-> IF bad = {} THEN Nil ELSE PGError]

\* Mutant of Statement: the query is sent as it is.
Statement_Plain(query) == query

\* The statement sent to the database: query+" RETURNING id".
Statement(query) == query \o Lit_RETURNING

\* ids := []; tx, err := dst.client.Begin(ctx)
InsertBegin(op) ==
    /\ pool # Nil
    /\ pgcall.pos \in {"idle", "done"}
    /\ npg < MaxPGCalls
    /\ npg' = npg + 1
    /\ \E query \in PGQueries, ok \in BOOLEAN :
          pgcall' = IF ok
                    THEN [NoPGCall EXCEPT !.op = op, !.pos = "query", !.query = query,
                                          !.tx = npg + 1,
                                          !.log = <<Event("Begin", npg + 1, <<>>)>>]
                    ELSE [NoPGCall EXCEPT !.op = op, !.pos = "done", !.query = query,
                                          !.err = PGError, !.failed = "begin"]
    /\ UNCHANGED <<pool, pgtable, seq, fvVars, redisVars, chVars, convVars>>

\* res, err = tx.Query(ctx, query+" RETURNING id"); Rollback on error.
InsertQuery(op) ==
    /\ pgcall.op = op
    /\ pgcall.pos = "query"
    /\ \E sent \in BOOLEAN :
          LET stmt == Statement(pgcall.query)
              r == SrvInsert(stmt, seq)
          IN IF sent /\ r.ok
             THEN /\ pgcall' = [pgcall EXCEPT
                                  !.pos = "rows", !.stmt = stmt, !.rows = r.rows,
                                  !.log = Append(pgcall.log, Event("Query", pgcall.tx, stmt))]
                  /\ seq' = seq + Len(r.inserted)
             ELSE /\ pgcall' = [pgcall EXCEPT
                                  !.pos = "done", !.stmt = stmt, !.err = PGError,
                                  !.failed = "exec",
                                  !.log = pgcall.log
                                          \o <<Event("Query", pgcall.tx, stmt),
                                               Event("Rollback", pgcall.tx, <<>>)>>]
                  /\ seq' = seq
    /\ UNCHANGED <<pool, pgtable, npg, fvVars, redisVars, chVars, convVars>>

\* pgx.ForEachRow(res, []any{&n}, ...); Rollback on error.
InsertRows(op) ==
    /\ pgcall.op = op
    /\ pgcall.pos = "rows"
    /\ \E failAt \in 0..Len(pgcall.rows) :
          LET r == ForEachRow(op, pgcall.rows, failAt)
          IN pgcall' = IF r.err = Nil
                       THEN [pgcall EXCEPT !.pos = "commit", !.ids = r.ids]
                       ELSE [pgcall EXCEPT
                               !.pos = "done", !.ids = r.ids, !.err = r.err,
                               !.failed = "scan",
                               !.log = Append(pgcall.log,
                                              Event("Rollback", pgcall.tx, <<>>))]
    /\ UNCHANGED <<pool, pgtable, seq, npg, fvVars, redisVars, chVars, convVars>>

\* err = tx.Commit(ctx); return ids, err
InsertCommit(op) ==
    /\ pgcall.op = op
    /\ pgcall.pos = "commit"
    /\ \E ok \in BOOLEAN :
          /\ pgcall' = [pgcall EXCEPT
                          !.pos = "done", !.err = IF ok THEN Nil ELSE PGError,
                          !.failed = IF ok THEN None ELSE "commit",
                          !.log = Append(pgcall.log, Event("Commit", pgcall.tx, <<>>))]
          /\ pgtable' = IF ok THEN pgtable \o pgcall.rows ELSE pgtable
    /\ UNCHANGED <<pool, seq, npg, fvVars, redisVars, chVars, convVars>>

Insert ==
    \/ InsertBegin("Insert")
    \/ InsertQuery("Insert")
    \/ InsertRows("Insert")
    \/ InsertCommit("Insert")

InsertUUID ==
    \/ InsertBegin("InsertUUID")
    \/ InsertQuery("InsertUUID")
    \/ InsertRows("InsertUUID")
    \/ InsertCommit("InsertUUID")

\* The statements callers pass to Update and Delete: the empty query, an
\* UPDATE of every row, a DELETE of every row, an INSERT of one row and a
\* statement the database rejects.
ExecQueries == {<<>>, <<"u">>, <<"d">>, <<"I", "1">>, <<"X">>}

ErrorIncorrectRequest == "incorrect request"

Tag_UPDATE == <<"U", "P", "D", "A", "T", "E">>
Tag_DELETE == <<"D", "E", "L", "E", "T", "E">>
Tag_INSERT == <<"I", "N", "S", "E", "R", "T", " ", "0">>

HasPrefix(str, prefix) ==
    /\ Len(str) >= Len(prefix)
    /\ SubSeq(str, 1, Len(prefix)) = prefix

\* The command tag the database reports: the verb and the number of rows.
CommandTag(verb, rows) == verb \o <<" ">> \o FormatNat(rows)

DigitValue(ch) == CHOOSE d \in 0..9 : Digits[d + 1] = ch

IsDigit(ch) == \E d \in 0..9 : Digits[d + 1] = ch

\* pgconn.CommandTag.RowsAffected: the number the tag ends with, 0 if none.
RECURSIVE TrailingNumber(_, _, _)
TrailingNumber(tag, acc, unit) ==
    IF tag = <<>> \/ ~IsDigit(tag[Len(tag)]) THEN acc
    ELSE TrailingNumber(SubSeq(tag, 1, Len(tag) - 1),
                        acc + unit * DigitValue(tag[Len(tag)]), unit * 10)

RowsAffected(tag) == TrailingNumber(tag, 0, 1)

\* What the database does with a statement passed to Exec on a table of
\* rows: whether it accepts it, the command tag and the rows it inserts.
SrvExec(stmt, rows) ==
    CASE stmt = <<"u">> -> [ok |-> TRUE, tag |-> CommandTag(Tag_UPDATE, Len(rows)), ins |-> 0]
      [] stmt = <<"d">> -> [ok |-> TRUE, tag |-> CommandTag(Tag_DELETE, Len(rows)), ins |-> 0]
      [] stmt = <<"I", "1">> -> [ok |-> TRUE, tag |-> CommandTag(Tag_INSERT, 1), ins |-> 1]
      [] stmt = <<>> -> [ok |-> TRUE, tag |-> <<>>, ins |-> 0]
      [] OTHER -> [ok |-> FALSE, tag |-> <<>>, ins |-> 0]

\* Mutant of TagMatches: a statement that affects no row does not match.
TagMatches_RowsAffected(op, tag) ==
    /\ RowsAffected(tag) > 0
    /\ IF op = "Update" THEN HasPrefix(tag, Tag_UPDATE) ELSE HasPrefix(tag, Tag_DELETE)

\* res.Update() in Update, res.Delete() in Delete.
TagMatches(op, tag) ==
    IF op = "Update" THEN HasPrefix(tag, Tag_UPDATE) ELSE HasPrefix(tag, Tag_DELETE)

\* Mutant of Rollback: the transaction is left open.
Rollback_Missing(log, tx) == log

\* tx.Rollback(ctx)
Rollback(log, tx) == Append(log, Event("Rollback", tx, <<>>))

\* Update: if query == "" return 0, nil.  Update and Delete:
\* tx, err := dst.client.Begin(ctx)
ExecBegin(op) ==
    /\ pool # Nil
    /\ pgcall.pos \in {"idle", "done"}
    /\ npg < MaxPGCalls
    /\ npg' = npg + 1
    /\ \E query \in ExecQueries, ok \in BOOLEAN :
          pgcall' = IF op = "Update" /\ query = <<>>
                    THEN [NoPGCall EXCEPT !.op = op, !.pos = "done", !.query = query]
                    ELSE IF ok
                    THEN [NoPGCall EXCEPT !.op = op, !.pos = "exec", !.query = query,
                                          !.tx = npg + 1,
                                          !.log = <<Event("Begin", npg + 1, <<>>)>>]
                    ELSE [NoPGCall EXCEPT !.op = op, !.pos = "done", !.query = query,
                                          !.err = PGError, !.failed = "begin"]
    /\ UNCHANGED <<pool, pgtable, seq, fvVars, redisVars, chVars, convVars>>

\* res, err = tx.Exec(ctx, query) and the check of the command tag;
\* Rollback when either fails.
ExecRun(op) ==
    /\ pgcall.op = op
    /\ pgcall.pos = "exec"
    /\ \E sent \in BOOLEAN :
          LET r == SrvExec(pgcall.query, pgtable)
              log == Append(pgcall.log, Event("Exec", pgcall.tx, pgcall.query))
          IN IF ~(sent /\ r.ok)
             THEN /\ pgcall' = [pgcall EXCEPT
                                  !.pos = "done", !.stmt = pgcall.query,
                                  !.err = PGError, !.execErr = PGError,
                                  !.failed = "exec",
                                  !.log = Rollback(log, pgcall.tx)]
                  /\ seq' = seq
             ELSE /\ pgcall' = IF TagMatches(op, r.tag)
                               THEN [pgcall EXCEPT
                                       !.pos = "commit", !.stmt = pgcall.query,
                                       !.tag = r.tag, !.log = log]
                               ELSE [pgcall EXCEPT
                                       !.pos = "done", !.stmt = pgcall.query,
                                       !.tag = r.tag, !.err = ErrorIncorrectRequest,
                                       !.failed = "tag",
                                       !.log = Rollback(log, pgcall.tx)]
                  /\ seq' = seq + r.ins
    /\ UNCHANGED <<pool, pgtable, npg, fvVars, redisVars, chVars, convVars>>

\* err = tx.Commit(ctx); return uint(res.RowsAffected()), nil
ExecCommit(op) ==
    /\ pgcall.op = op
    /\ pgcall.pos = "commit"
    /\ \E ok \in BOOLEAN :
          /\ pgcall' = [pgcall EXCEPT
                          !.pos = "done", !.err = IF ok THEN Nil ELSE PGError,
                          !.n = IF ok THEN RowsAffected(pgcall.tag) ELSE 0,
                          !.failed = IF ok THEN None ELSE "commit",
                          !.log = Append(pgcall.log, Event("Commit", pgcall.tx, <<>>))]
          /\ pgtable' = IF ok /\ HasPrefix(pgcall.tag, Tag_DELETE) THEN <<>> ELSE pgtable
    /\ UNCHANGED <<pool, seq, npg, fvVars, redisVars, chVars, convVars>>

Update ==
    \/ ExecBegin("Update")
    \/ ExecRun("Update")
    \/ ExecCommit("Update")

Delete ==
    \/ ExecBegin("Delete")
    \/ ExecRun("Delete")
    \/ ExecCommit("Delete")

PGNext ==
    \/ PGStart
    \/ Insert
    \/ InsertUUID
    \/ Update
    \/ Delete

-----------------------------------------------------------------------------
(* clickhouse.ClickHouseClient: Insert, Update, Count, Select, LogSelect   *)

\* Number of calls of the columnar client in one run.
MaxCHCalls == 3

CHModels == {"m"}
CHQueries == {<<"q">>, <<"q", "\n", "\t", "r">>}
CHCounts == {0, 2}
CHOps == {"Insert", "Update", "Count", "Select", "LogSelect"}

CHError == "code: 62, message: Syntax error"
Canceled == "context canceled"

NoCHCall ==
    [op |-> "none", pos |-> "idle", model |-> <<>>, query |-> <<>>,
     ctx |-> "live", passed |-> None, inflight |-> FALSE,
     n |-> 0, err |-> Nil, quiet |-> FALSE, emitted |-> 0, line |-> <<>>]

CHInit ==
    /\ chClient = Nil
    /\ chDoNotLogQueries = FALSE
    /\ chLastQuery = <<>>
    /\ chLogged = 0
    /\ chcall = NoCHCall
    /\ nch = 0

\* Start returns only when the connection was opened and answered the Ping.
CHStart ==
    /\ chClient = Nil
    /\ chClient' = "conn"
    /\ UNCHANGED <<chDoNotLogQueries, chLastQuery, chLogged, chcall, nch,
                   fvVars, redisVars, pgVars, convVars>>

\* strings.ReplaceAll(str, old, new) for a one-character old.
RECURSIVE ReplaceAll(_, _, _)
ReplaceAll(str, old, new) ==
    IF str = <<>> THEN <<>>
    ELSE (IF Head(str) = old THEN new ELSE <<Head(str)>>) \o ReplaceAll(Tail(str), old, new)

\* The query on one line: newlines become spaces, tabs are removed.
OneLine(query) == ReplaceAll(ReplaceAll(query, "\n", <<" ">>), "\t", <<>>)

\* The name of a method in its log line.
CHVerb(op) ==
    CASE op = "Insert" -> "Create"
      [] op = "Update" -> "Update"
      [] op = "Count" -> "Count"
      [] OTHER -> "Load"

\* The line a method renders: "CH <model> <Verb> (<ms>) <query>". The
\* elapsed time is left out.
CHLine(op, model, query) == <<"CH", model, CHVerb(op), OneLine(query)>>

\* Mutant of CHContext: Count hands the caller's context to the driver.
CHContext_Caller(op) == "caller"

\* The context each method hands to its driver call: ctx, or
\* context.Background() in Count.
CHContext(op) == IF op = "Count" THEN "background" ELSE "caller"

\* The caller sets or clears the exported field DoNotLogQueries.
CHSetDoNotLogQueries ==
    /\ chcall.pos \in {"idle", "done"}
    /\ chDoNotLogQueries' = ~chDoNotLogQueries
    /\ UNCHANGED <<chClient, chLastQuery, chLogged, chcall, nch, fvVars, redisVars, pgVars, convVars>>

\* A method is called with a live context; Insert, Update, Count and
\* Select start their driver call.
CHCall ==
    /\ chClient # Nil
    /\ chcall.pos \in {"idle", "done"}
    /\ nch < MaxCHCalls
    /\ \E op \in CHOps \ {"LogSelect"}, model \in CHModels, query \in CHQueries :
          chcall' = [NoCHCall EXCEPT !.op = op, !.pos = "driver", !.model = model,
                                     !.query = query, !.passed = CHContext(op),
                                     !.inflight = TRUE]
    /\ nch' = nch + 1
    /\ UNCHANGED <<chClient, chDoNotLogQueries, chLastQuery, chLogged,
                   fvVars, redisVars, pgVars, convVars>>

\* The caller's context is cancelled, or its deadline passes, while the
\* driver call is in flight.
CHCancel ==
    /\ chcall.pos = "driver"
    /\ chcall.ctx = "live"
    /\ chcall' = [chcall EXCEPT !.ctx = "cancelled"]
    /\ UNCHANGED <<chClient, chDoNotLogQueries, chLastQuery, chLogged, nch,
                   fvVars, redisVars, pgVars, convVars>>

\* What the driver call returns: the context's error when the context it
\* was given is cancelled, otherwise the server's answer.
CHDriver(c, answer) ==
    IF c.passed = "caller" /\ c.ctx = "cancelled"
    THEN [n |-> 0, err |-> Canceled]
    ELSE answer

\* ClickHouseClient.logQuery: stores the rendered line and hands it to
\* Debug unless DoNotLogQueries is set.
CHlogQuery(line) ==
    /\ chLastQuery' = line
    /\ chLogged' = IF chDoNotLogQueries THEN chLogged ELSE chLogged + 1

\* The driver call of Insert, Update, Count or Select returns; the method
\* logs the query and returns.
CHReturn(op) ==
    /\ chcall.op = op
    /\ chcall.pos = "driver"
    /\ \E answer \in {[n |-> k, err |-> Nil] : k \in CHCounts}
                      \cup {[n |-> 0, err |-> CHError]} :
          LET r == CHDriver(chcall, answer)
              line == CHLine(op, chcall.model, chcall.query)
          IN /\ CHlogQuery(line)
             /\ chcall' = [chcall EXCEPT
                             !.pos = "done",
                             !.err = r.err,
                             !.n = IF op = "Count" /\ r.err = Nil THEN r.n ELSE 0,
                             !.quiet = chDoNotLogQueries,
                             !.emitted = chLogged' - chLogged,
                             !.line = line]
    /\ UNCHANGED <<chClient, chDoNotLogQueries, nch, fvVars, redisVars, pgVars, convVars>>

CHInsert == CHReturn("Insert")

CHUpdate == CHReturn("Update")

CHCount == CHReturn("Count")

CHSelect == CHReturn("Select")

\* LogSelect makes no driver call: it hands the rendered line to Debug.
LogSelect ==
    /\ chClient # Nil
    /\ chcall.pos \in {"idle", "done"}
    /\ nch < MaxCHCalls
    /\ \E model \in CHModels, query \in CHQueries :
          chcall' = [NoCHCall EXCEPT !.op = "LogSelect", !.pos = "done", !.model = model,
                                     !.query = query, !.quiet = chDoNotLogQueries,
                                     !.emitted = 1,
                                     !.line = CHLine("LogSelect", model, query)]
    /\ chLogged' = chLogged + 1
    /\ nch' = nch + 1
    /\ UNCHANGED <<chClient, chDoNotLogQueries, chLastQuery, fvVars, redisVars, pgVars, convVars>>

CHNext ==
    \/ CHStart
    \/ CHSetDoNotLogQueries
    \/ CHCall
    \/ CHCancel
    \/ CHInsert
    \/ CHUpdate
    \/ CHCount
    \/ CHSelect
    \/ LogSelect

-----------------------------------------------------------------------------
(* postgres.ToStr and postgres.ArrayToString called on their own           *)

\* Length of the strings handed to ToStr.
MaxLen == 3

Chars == {"a", "'"}

\* The sequences over S of length up to n.
SeqsUpTo(S, n) == UNION {[1..k -> S] : k \in 0..n}

NilValue == [type |-> "nil", isNil |-> TRUE, elems |-> <<>>]

\* A call of a conversion: its argument (str or arr) and result (out); for
\* ArrayToString also the caller's slice as the call leaves it (after),
\* the number of times the caller has rendered the slice (n) and the
\* result of rendering it once more (again).
NoConv ==
    [fn |-> "none", str |-> <<>>, arr |-> NilValue, out |-> <<>>, done |-> FALSE,
     after |-> NilValue, n |-> 0, again |-> <<>>]

ConvInit == conv = NoConv

\* The calls explored: ToStr(str) for every string up to MaxLen.
ToStrCalls == {[NoConv EXCEPT !.fn = "ToStr", !.str = str] : str \in SeqsUpTo(Chars, MaxLen)}

\* Number of elements of the slices handed to ArrayToString.
MaxElems == 2

IntTypes == {"[]int8", "[]int16", "[]int32", "[]int64"}

\* The values handed to ArrayToString: nil, values that are no slices,
\* and nil, empty and filled slices of strings, signed integers and bytes.
ArrayValues ==
    {NilValue}
    \cup {[type |-> t, isNil |-> FALSE, elems |-> <<>>] : t \in {"int", "string"}}
    \cup {NilSlice(t) : t \in IntTypes \cup {"[]string", "[]uint8"}}
    \cup {MkSlice("[]string", e) : e \in SeqsUpTo(SeqsUpTo(Chars, MaxLen), MaxElems)}
    \cup {MkSlice(t, e) : t \in IntTypes, e \in SeqsUpTo({0 - 1, 0, 10}, MaxElems)}
    \cup {MkSlice("[]uint8", e) : e \in SeqsUpTo({1, 2, 255}, MaxElems)}

ArrayToStringCalls == {[NoConv EXCEPT !.fn = "ArrayToString", !.arr = v] : v \in ArrayValues}

ConvCalls == ToStrCalls \cup ArrayToStringCalls

InitConv == FVInit /\ RedisInit /\ PGInit /\ CHInit /\ conv \in ConvCalls

CallToStr ==
    /\ conv.fn = "ToStr"
    /\ ~conv.done
    /\ conv' = [conv EXCEPT !.out = ToStr(conv.str), !.done = TRUE]
    /\ UNCHANGED <<fvVars, redisVars, pgVars, chVars>>

CallArrayToString ==
    /\ conv.fn = "ArrayToString"
    /\ ~conv.done
    /\ conv' = [conv EXCEPT !.out = ArrayToString(conv.arr), !.done = TRUE,
                            !.after = ArrayAfter(conv.arr), !.n = 1]
    /\ UNCHANGED <<fvVars, redisVars, pgVars, chVars>>

\* The caller renders the same slice once more.
CallArrayToStringAgain ==
    /\ conv.fn = "ArrayToString"
    /\ conv.done
    /\ conv.n = 1
    /\ conv' = [conv EXCEPT !.again = ArrayToString(conv.after),
                            !.after = ArrayAfter(conv.after), !.n = 2]
    /\ UNCHANGED <<fvVars, redisVars, pgVars, chVars>>

ConvNext ==
    \/ CallToStr
    \/ CallArrayToString
    \/ CallArrayToStringAgain

-----------------------------------------------------------------------------
\* The query builder, the key-value client, the relational client and the
\* columnar client share no state: each is explored under its own
\* specification.

Init == FVInit /\ RedisInit /\ PGInit /\ CHInit /\ ConvInit

Next == FVNext

Spec == Init /\ [][Next]_vars

SpecRedis == Init /\ [][RedisNext]_vars

SpecRedisSeq == Init /\ [][RedisSeqNext]_vars

SpecRedisStream == Init /\ [][RedisStreamNext]_vars
SpecRedisMsg == Init /\ [][RedisMsgNext]_vars
SpecRedisTTL == Init /\ [][RedisTTLNext]_vars
SpecRedisRace == Init /\ [][RedisRaceNext]_vars

SpecPG == Init /\ [][PGNext]_vars

SpecCH == Init /\ [][CHNext]_vars

SpecConv == InitConv /\ [][ConvNext]_vars

-----
(* Properties of the builder                                               *)

\* Expected texts, written out character by character.
T_ARRAY == <<"A", "R", "R", "A", "Y">>
T_SMALLINT == <<":", ":", "S", "M", "A", "L", "L", "I", "N", "T", "[", "]">>
T_INTEGER == <<":", ":", "I", "N", "T", "E", "G", "E", "R", "[", "]">>
T_BIGINT == <<":", ":", "B", "I", "G", "I", "N", "T", "[", "]">>
T_VARCHAR == <<":", ":", "V", "A", "R", "C", "H", "A", "R", "[", "]">>
T_STR_A == <<"'", "a", "'">>
T_STR_QA == <<"'", "'", "'", "a", "'">>
T_TIME1 == <<"'", "0", "0", "0", "1", "-", "0", "1", "-", "0", "1", "T", "0", "1", ":", "0", "0", ":", "0", "0", "Z", "'">>
T_TIME2 == <<"'", "0", "0", "0", "1", "-", "0", "1", "-", "0", "1", "T", "0", "2", ":", "0", "0", ":", "0", "0", "Z", "'">>
T_STRS == <<"[", "'", "a", "'", ",", "'", "'", "'", "'", "]">>
T_INTS == <<"[", "1", "0", ",", "-", "1", "]">>
T_updated_at == <<"u", "p", "d", "a", "t", "e", "d", "_", "a", "t">>
T_UPDATE == <<"U", "P", "D", "A", "T", "E", " ">>
T_SET_OPEN == <<" ", "S", "E", "T", " ", "(">>
T_EQ_OPEN == <<")", " ", "=", " ", "(">>
T_WHERE == <<")", " ", "W", "H", "E", "R", "E", " ", "i", "d", " ", "=", " ">>
T_UUID == <<"'", "u", "-", "1", "'">>

SetterOps ==
    {"String", "UInt8", "UInt16", "UInt32", "UInt64", "Int8", "Int16", "Int32",
     "Int64", "Bool", "Time", "Int8Slice", "Int16Slice", "Int32Slice",
     "Int64Slice", "StringSlice"}

SliceOps == {"Int8Slice", "Int16Slice", "Int32Slice", "Int64Slice", "StringSlice"}

IsPrefix(a, b) == Len(a) <= Len(b) /\ SubSeq(b, 1, Len(a)) = a

\* The previous and the new value of a setter call differ: different
\* elements for slices, different instants for timestamps.
Differ(op, was, is) ==
    IF op \in SliceOps THEN was.elems # is.elems
    ELSE IF op = "Time" THEN was.inst # is.inst
    ELSE was # is

\* The SQL literal expected for each value the setters are called with.
ExpectedArray(op, body) ==
    T_ARRAY \o body \o
    (CASE op \in {"Int8Slice", "Int16Slice"} -> T_SMALLINT
       [] op = "Int32Slice" -> T_INTEGER
       [] op = "Int64Slice" -> T_BIGINT
       [] OTHER -> T_VARCHAR)

ExpectedLiteral(op, is) ==
    CASE op = "String" ->
            (IF is = <<"a">> THEN T_STR_A ELSE T_STR_QA)
      [] op \in {"UInt8", "UInt16", "UInt32", "UInt64", "Int8", "Int16", "Int32", "Int64"} ->
            (IF is = 0 - 1 THEN <<"-", "1">>
             ELSE IF is = 0 THEN <<"0">> ELSE <<"1", "0">>)
      [] op = "Bool" ->
            (IF is THEN <<"t", "r", "u", "e">> ELSE <<"f", "a", "l", "s", "e">>)
      [] op = "Time" ->
            (IF is.inst = 1 THEN T_TIME1 ELSE T_TIME2)
      [] op = "StringSlice" ->
            ExpectedArray(op, IF is.elems = <<>> THEN <<"[", "]">> ELSE T_STRS)
      [] OTHER ->
            ExpectedArray(op, IF is.elems = <<>> THEN <<"[", "]">> ELSE T_INTS)

\* C1: a compare-setter called with a previous value equal to the new value
\* appends nothing: Fields and Values are left exactly as they were.
C1_EqualAppendsNothing ==
    (call.op \in SetterOps /\ call.was = call.is)
        => (Fields = before.Fields /\ Values = before.Values)

C1_Witness ==
    /\ call.op \in SetterOps
    /\ call.was = call.is
    /\ Len(before.Fields) >= 1

\* C2: a compare-setter called with differing values appends exactly one
\* entry: the given column at the end of Fields and, at the same index of
\* Values, the SQL literal of the new value.
C2_DifferAppendsLiteral ==
    (call.op \in SetterOps /\ Differ(call.op, call.was, call.is))
        => /\ Fields = Append(before.Fields, call.field)
           /\ Values = Append(before.Values, ExpectedLiteral(call.op, call.is))

C2_Witness ==
    /\ call.op = "StringSlice"
    /\ Differ(call.op, call.was, call.is)
    /\ call.is.elems # <<>>
    /\ Len(before.Fields) = 1

\* C3: after any sequence of builder calls Fields and Values have the same
\* length and Values[i] is the literal added together with column Fields[i].
C3_IndexAligned ==
    /\ Len(Fields) = Len(Values)
    /\ Len(pairs) = Len(Fields)
    /\ \A i \in 1..Len(pairs) :
          Fields[i] = pairs[i].field /\ Values[i] = pairs[i].value

C3_Witness ==
    /\ call.op = "AddJSON"
    /\ call.err
    /\ Len(Fields) = 1

\* The text between the first "(" and the first ")" of a statement: its
\* SET column list.
RECURSIVE AfterFirst(_, _)
AfterFirst(q, ch) ==
    IF q = <<>> THEN <<>>
    ELSE IF Head(q) = ch THEN Tail(q) ELSE AfterFirst(Tail(q), ch)

RECURSIVE UpToFirst(_, _)
UpToFirst(q, ch) ==
    IF q = <<>> THEN <<>>
    ELSE IF Head(q) = ch THEN <<>> ELSE <<Head(q)>> \o UpToFirst(Tail(q), ch)

ColumnList(q) == UpToFirst(AfterFirst(q, "("), ")")

\* C4: the builder is append-only: Fields and Values before a call are a
\* prefix of Fields and Values after it; UpdateQuery leaves both unchanged,
\* and a repeated UpdateQuery renders the same column list.
C4_AppendOnly ==
    [][/\ IsPrefix(Fields, Fields')
       /\ IsPrefix(Values, Values')
       /\ call'.op = "UpdateQuery" =>
            /\ Fields' = Fields
            /\ Values' = Values
            /\ (call.op = "UpdateQuery" /\ Len(Fields) > 0) =>
                 ColumnList(call'.query) = ColumnList(call.query)]_vars

C4_Witness ==
    /\ call.op = "UpdateQuery"
    /\ Len(before.Fields) = 2
    /\ ColumnList(call.query) = Join(Fields, <<",">>) \o <<",">> \o T_updated_at

\* C5: UpdateQuery on a builder with no accumulated fields returns the empty
\* string and the zero time value, for every table name and every id.
C5_EmptyBuilder ==
    (call.op = "UpdateQuery" /\ Len(before.Fields) = 0)
        => (call.query = <<>> /\ call.ts = [inst |-> 0, loc |-> "UTC"])

C5_Witness ==
    /\ call.op = "UpdateQuery"
    /\ Len(before.Fields) = 0
    /\ ncalls > 0
    /\ call.id.kind = "uuid"

\* The text expected for the returned stamp.
ExpectedStamp(ts) == IF ts.inst = 1 THEN T_TIME1 ELSE T_TIME2

-----------------------------------------------------------------------------
(* Properties of the key-value client                                      *)

SinglePushAtomic ==
    last.op = "SinglePush" =>
        /\ (last.drvErr = Nil /\ last.ret.err = Nil) =>
              (last.pre.list = <<>> /\ last.post.list = <<last.val>>)
        /\ last.post # last.pre => Len(last.post.list) = 1

\* A finished group of SinglePush calls on key k that started on an empty
\* list and in which no call failed in the driver.
GroupDone(k) == ~ep[k].open /\ ep[k].empty /\ ep[k].joined >= 1 /\ ep[k].errc = 0

ExactlyOneNil(k) == ep[k].nilc = 1 /\ ep[k].nec = ep[k].joined - 1

C9_GetResult ==
    last.op = "Get" =>
        LET delivered == last.drvErr # IOError
        IN /\ (delivered /\ last.pre.type = "none") =>
                 last.ret = [val |-> last.def, err |-> Nil]
           /\ (delivered /\ last.pre.type = "string") =>
                 last.ret = [val |-> last.pre.str, err |-> Nil]
           /\ (~delivered \/ last.pre.type = "list") =>
                 /\ last.ret.val = ""
                 /\ last.ret.val # last.def
                 /\ last.ret.err = last.drvErr
                 /\ last.ret.err \notin {Nil, RedisNil}
           /\ last.post = last.pre

C9_Witness ==
    /\ last.op = "Get"
    /\ last.pre.type = "string"
    /\ last.ret = [val |-> last.pre.str, err |-> Nil]
    /\ last.ret.val # last.def


-----------------------------------------------------------------------------
(* Properties of the relational client                                     *)

T_RETURNING == <<" ", "R", "E", "T", "U", "R", "N", "I", "N", "G", " ", "i", "d">>

\* C10: an Insert or InsertUUID that returns no error sent the caller's
\* query with " RETURNING id" appended, returns one identifier per row that
\* statement returned, in the order of the rows, and read those rows in the
\* transaction it began, which it then committed.
C10_InsertReturnsIds ==
    (pgcall.op \in {"Insert", "InsertUUID"} /\ pgcall.pos = "done" /\ pgcall.err = Nil) =>
        /\ pgcall.stmt = pgcall.query \o T_RETURNING
        /\ pgcall.rows = SrvInsert(pgcall.query \o T_RETURNING, pgcall.rows[1].n).rows
        /\ Len(pgcall.ids) = Len(pgcall.rows)
        /\ \A i \in 1..Len(pgcall.rows) :
              pgcall.ids[i] = IF pgcall.op = "Insert" THEN pgcall.rows[i].n
                              ELSE [uuid |-> pgcall.rows[i].n]
        /\ pgcall.log = <<[ev |-> "Begin", tx |-> pgcall.tx, stmt |-> <<>>],
                          [ev |-> "Query", tx |-> pgcall.tx, stmt |-> pgcall.stmt],
                          [ev |-> "Commit", tx |-> pgcall.tx, stmt |-> <<>>]>>
        /\ \A i \in 1..Len(pgcall.rows) : \E j \in 1..Len(pgtable) : pgtable[j] = pgcall.rows[i]

C10_Witness ==
    /\ pgcall.pos = "done"
    /\ pgcall.err = Nil
    /\ pgcall.op = "Insert"
    /\ Len(pgcall.ids) = 2
    /\ pgcall.ids[1] < pgcall.ids[2]
    /\ pgcall.ids[1] > 1

\* The positions of the events of kind ev in the log of the call.
EventsOf(kinds) == {i \in 1..Len(pgcall.log) : pgcall.log[i].ev \in kinds}

\* C11: Insert, InsertUUID, Update and Delete execute their statement only
\* in the transaction the call began; a transaction that was begun is open
\* while the call runs and, once the call has returned, was ended by exactly
\* one Commit or Rollback, its last event - Rollback when execution, row
\* scanning or the command-tag check failed, Commit otherwise; when Begin
\* fails nothing is executed.
C11_TransactionDiscipline ==
    LET log == pgcall.log
        ends == EventsOf({"Commit", "Rollback"})
    IN /\ \A i \in 1..Len(log) : log[i].tx = pgcall.tx
       /\ log # <<>> => EventsOf({"Begin"}) = {1}
       /\ Cardinality(EventsOf({"Query", "Exec"})) <= 1
       /\ \A i \in EventsOf({"Query", "Exec"}) : i = 2 /\ \A j \in ends : i < j
       /\ pgcall.pos \in {"query", "rows", "exec", "commit"} => (log # <<>> /\ ends = {})
       /\ (pgcall.pos = "done" /\ log # <<>>) =>
             /\ ends = {Len(log)}
             /\ (log[Len(log)].ev = "Rollback") <=> (pgcall.failed \in {"exec", "scan", "tag"})
             /\ (log[Len(log)].ev = "Commit") <=> (pgcall.failed \in {None, "commit"})
       /\ (pgcall.pos = "done" /\ pgcall.failed = "begin") =>
             (log = <<>> /\ pgcall.err # Nil /\ pgcall.stmt = <<>>)
       /\ (pgcall.pos = "done" /\ log = <<>>) =>
             (pgcall.failed = "begin" \/ (pgcall.op = "Update" /\ pgcall.query = <<>>))

C11_Witness ==
    /\ pgcall.pos = "done"
    /\ pgcall.op = "Update"
    /\ pgcall.failed = "tag"
    /\ Len(pgcall.log) = 3
    /\ pgcall.log[3].ev = "Rollback"
    /\ Len(pgtable) = 2

T_TAG_UPDATE == <<"U", "P", "D", "A", "T", "E">>
T_TAG_DELETE == <<"D", "E", "L", "E", "T", "E">>

\* The verb the command tag of a finished Update or Delete has to carry.
ExpectedVerb == IF pgcall.op = "Update" THEN T_TAG_UPDATE ELSE T_TAG_DELETE

\* C12: Update (Delete) returns ErrorIncorrectRequest exactly when Begin and
\* Exec succeeded and the command tag is not an UPDATE (DELETE) tag, and the
\* transaction is then rolled back; a correctly tagged statement is
\* committed whatever its row count, so one that affects no row returns
\* (0, nil); every call that returns an error returns the count 0.
C12_IncorrectRequest ==
    (pgcall.op \in {"Update", "Delete"} /\ pgcall.pos = "done") =>
        LET log == pgcall.log
            executed == EventsOf({"Exec"}) # {} /\ pgcall.execErr = Nil
            tagged == IsPrefix(ExpectedVerb, pgcall.tag)
        IN /\ (pgcall.err = ErrorIncorrectRequest) <=> (executed /\ ~tagged)
           /\ pgcall.err = ErrorIncorrectRequest => log[Len(log)].ev = "Rollback"
           /\ (executed /\ tagged) =>
                 /\ log[Len(log)].ev = "Commit"
                 /\ pgcall.failed \in {None, "commit"}
                 /\ pgcall.failed = None =>
                       /\ pgcall.err = Nil
                       /\ pgcall.tag = ExpectedVerb \o <<" ">> \o FormatNat(pgcall.n)
           /\ pgcall.err # Nil => pgcall.n = 0

C12_Witness ==
    /\ pgcall.op = "Delete"
    /\ pgcall.pos = "done"
    /\ pgcall.tag = T_TAG_DELETE \o <<" ", "0">>
    /\ pgcall.err = Nil
    /\ pgcall.n = 0
    /\ npg = 2

\* C13: once a Start has returned, exactly one of the two handles is
\* non-nil - the cluster handle exactly when the hosts string of the most
\* recent Start contained a comma, and then db is 0 - and the conditional
\* push script is installed; before the first Start both handles are nil.
C13_OneHandle ==
    IF started = <<>>
    THEN client = Nil /\ cluster = Nil /\ singlePush = Nil
    ELSE /\ (client = Nil) # (cluster = Nil)
         /\ (cluster # Nil) <=> (\E i \in 1..Len(started) : started[i] = ",")
         /\ cluster # Nil => db = 0
         /\ singlePush # Nil

C13_Witness ==
    /\ started = <<"h", "1", ",", "h", "2">>
    /\ cluster # Nil
    /\ client = Nil
    /\ db = 0
    /\ singlePush # Nil
    /\ nredis > 0

\* What each method returns for the driver's reply r.
C14_Return(op, r, def) ==
    CASE op \in {"Get", "BLPop"} ->
            IF r.err = RedisNil THEN [val |-> def, err |-> Nil]
            ELSE IF r.err # Nil THEN [val |-> "", err |-> r.err]
            ELSE [val |-> r.val, err |-> Nil]
      [] op = "SinglePush" ->
            [val |-> None,
             err |-> IF r.err # Nil THEN r.err
                     ELSE IF r.val = 0 - 1 THEN ErrorListIsNotEmpty ELSE Nil]
      [] op \in {"LPush", "LRange", "LLen"} -> [val |-> r.val, err |-> r.err]
      [] OTHER -> [val |-> None, err |-> r.err]

C15_KeyValue ==
    last.op # "none" =>
        /\ LastQuery = <<"Redis(", FormatNat(db), ")", Verb(last.op), last.key>>
        /\ last.emitted = (IF last.quiet THEN 0 ELSE 1)

C15_KeyValueWitness ==
    /\ last.op = "Set"
    /\ last.quiet
    /\ last.emitted = 0
    /\ LastQuery = <<"Redis(", <<"1">>, ")", "SET", "k1">>
    /\ nlogged = 1

\* The columnar part of C15.
C15_Columnar ==
    chcall.pos = "done" =>
        /\ chLastQuery = chcall.line
        /\ chcall.emitted = (IF chcall.quiet THEN 0 ELSE 1)

\* C15: every call of the key-value and of the columnar client stores its
\* log line in lastQuery, so that LastQuery() is the line of the most
\* recent call, and emits it exactly once when DoNotLogQueries is false
\* and not at all when it is true.
C15_OneLinePerCall == C15_KeyValue /\ C15_Columnar

\* C18: a call whose context was cancelled while its driver call was in
\* flight returns the context's error: the driver call was given the
\* caller's context.
C18_CallerContext ==
    (chcall.pos = "done" /\ chcall.inflight /\ chcall.ctx = "cancelled")
        => chcall.err = Canceled

\* The methods other than Count hand their own ctx to the driver.
C18_ExceptCount ==
    (chcall.inflight /\ chcall.op # "Count") =>
        /\ chcall.passed = "caller"
        /\ (chcall.pos = "done" /\ chcall.ctx = "cancelled") => chcall.err = Canceled

C18_ExceptCountWitness ==
    /\ chcall.op = "Update"
    /\ chcall.pos = "done"
    /\ chcall.ctx = "cancelled"
    /\ chcall.err = Canceled

\* Number of single quotes in a text.
CountQuotes(text) == Cardinality({i \in 1..Len(text) : text[i] = "'"})

\* The text with every character but the single quotes.
IsOther(ch) == ch # "'"

RECURSIVE Undouble(_)
\* The text with every doubled single quote, from the left, replaced by one.
Undouble(text) ==
    IF text = <<>> THEN <<>>
    ELSE IF Len(text) >= 2 /\ text[1] = "'" /\ text[2] = "'"
         THEN <<"'">> \o Undouble(SubSeq(text, 3, Len(text)))
         ELSE <<Head(text)>> \o Undouble(Tail(text))

RECURSIVE LiteralEnd(_, _)
\* The position of the quote that closes the SQL string literal whose
\* content starts at position i of text (0: the literal is not closed): a
\* doubled quote is a character of the content.
LiteralEnd(text, i) ==
    IF i > Len(text) THEN 0
    ELSE IF text[i] # "'" THEN LiteralEnd(text, i + 1)
    ELSE IF i < Len(text) /\ text[i + 1] = "'" THEN LiteralEnd(text, i + 2)
    ELSE i

\* A text that is one SQL string literal and nothing more.
QuoteBalanced(text) ==
    /\ Len(text) >= 2
    /\ text[1] = "'"
    /\ LiteralEnd(text, 2) = Len(text)

\* C16: ToStr(s) holds twice the single quotes of s, an even number, and
\* the other characters of s in place; replacing each doubled quote by one
\* gives back s; and ' + ToStr(s) + ' is one string literal, quote-balanced.
C16_ToStrDoublesQuotes ==
    (conv.fn = "ToStr" /\ conv.done) =>
        /\ CountQuotes(conv.out) = 2 * CountQuotes(conv.str)
        /\ CountQuotes(conv.out) % 2 = 0
        /\ SelectSeq(conv.out, IsOther) = SelectSeq(conv.str, IsOther)
        /\ Len(conv.out) = Len(conv.str) + CountQuotes(conv.str)
        /\ Undouble(conv.out) = conv.str
        /\ QuoteBalanced(<<"'">> \o conv.out \o <<"'">>)
        /\ CountQuotes(<<"'">> \o conv.out \o <<"'">>) % 2 = 0

C16_Witness ==
    /\ conv.fn = "ToStr"
    /\ conv.done
    /\ conv.str = <<"'", "a", "'">>
    /\ conv.out = <<"'", "'", "a", "'", "'">>

RECURSIVE C17_Elements(_, _)
\* The elements, each rendered by its own rule, separated by commas.
C17_Elements(elems, strings) ==
    IF elems = <<>> THEN <<>>
    ELSE (IF strings THEN <<"'">> \o ToStr(Head(elems)) \o <<"'">> ELSE FormatInt(Head(elems)))
         \o (IF Len(elems) > 1 THEN <<",">> ELSE <<>>)
         \o C17_Elements(Tail(elems), strings)

\* What C17 states for the value v.
C17_Expected(v) ==
    IF v.type \notin IntTypes \cup {"[]string", "[]uint8"} \/ v.isNil \/ v.elems = <<>>
    THEN <<"[", "]">>
    ELSE <<"[">> \o C17_Elements(v.elems, v.type = "[]string") \o <<"]">>

\* C17: ArrayToString returns [] for nil, for a value that is no slice and
\* for a nil or empty slice; for a []string the elements in order, each in
\* single quotes with its quotes doubled, separated by commas, in square
\* brackets; for a slice of numbers the decimal elements in order,
\* separated by commas, in square brackets.
C17_ArrayToString ==
    (conv.fn = "ArrayToString" /\ conv.done) => conv.out = C17_Expected(conv.arr)

\* The same for every value but the slices of bytes.
C17_ExceptBytes ==
    (conv.fn = "ArrayToString" /\ conv.done /\ conv.arr.type # "[]uint8")
        => conv.out = C17_Expected(conv.arr)

C17_ExceptBytesWitness ==
    /\ conv.fn = "ArrayToString"
    /\ conv.done
    /\ conv.arr = MkSlice("[]string", << <<"a">>, <<"'", "a">> >>)
    /\ conv.out = <<"[", "'", "a", "'", ",", "'", "'", "'", "a", "'", "]">>

\* json.Marshal renders a []byte as base64 text, not as an array.
C17_BytesWitness ==
    /\ conv.fn = "ArrayToString"
    /\ conv.done
    /\ conv.arr = MkSlice("[]uint8", <<1, 2>>)
    /\ conv.out = <<"\"", "A", "Q", "I", "=", "\"">>

\* The driver errors a method translates instead of returning them.
C19_Sentinel(op, err) ==
    \/ op \in {"Get", "BLPop"} /\ err = RedisNil
    \/ op = "XGroupCreateMkStream" /\ err = BusyGroup

C20_GroupCreation ==
    /\ last.op = "XGroupCreateMkStream" =>
          /\ last.req.args = <<last.group, "$">>
          /\ (last.io = "ok" /\ last.pre.type = "none") =>
                /\ last.ret.err = Nil
                /\ last.post.type = "stream"
                /\ last.post.groups = {last.group}
                /\ last.post.lastid = 0
          /\ (last.io = "ok" /\ last.pre.type = "stream"
                /\ last.group \notin last.pre.groups) =>
                /\ last.ret.err = Nil
                /\ last.post.type = "stream"
                /\ last.post.groups = last.pre.groups \cup {last.group}
          /\ (last.io = "ok" /\ last.pre.type = "stream"
                /\ last.group \in last.pre.groups) =>
                /\ last.ret.err = ErrorGroupAlreadyExists
                /\ last.post = last.pre
          /\ last.ret.err = ErrorGroupAlreadyExists <=> last.drvErr = BusyGroup
          /\ last.ret.err = Nil => last.group \in last.post.groups
          /\ last.drvErr \notin {Nil, BusyGroup} => last.ret.err = last.drvErr
          /\ last.drvErr \in {WrongType, BusyGroup} => last.post = last.pre
    /\ (last.op = "XGroupDestroy" /\ last.ran /\ last.pre.type = "stream") =>
          /\ last.post.type = "stream"
          /\ last.post.groups = last.pre.groups \ {last.group}
          /\ last.ret.err = last.drvErr

\* A creation that succeeds on a stream whose groups were all destroyed.
C20_Witness ==
    /\ last.op = "XGroupCreateMkStream"
    /\ last.group = "g1"
    /\ last.pre.type = "stream"
    /\ last.pre.groups = {}
    /\ last.ret.err = Nil
    /\ last.post.groups = {"g1"}
    /\ nredis = 3

\* A creation of a group that exists.
C20_WitnessExists ==
    /\ last.op = "XGroupCreateMkStream"
    /\ last.group \in last.pre.groups
    /\ last.ret.err = ErrorGroupAlreadyExists

\* A creation on a key that holds a list.
C20_WitnessWrongType ==
    /\ last.op = "XGroupCreateMkStream"
    /\ last.pre.type = "list"
    /\ last.ret.err = WrongType

-----------------------------------------------------------------------------
(* Messages of a stream within a consumer group                            *)

\* The messages of stream e that group g has as pending.
PendingOf(e, g) == {n \in 1..e.lastid : <<g, n>> \in e.pending}

\* The messages of stream e not yet delivered to group g.
UndeliveredOf(e, g) ==
    IF e.type = "stream" /\ g \in e.groups
    THEN {n \in 1..e.lastid : n > Cursor(e, g)}
    ELSE {}

\* The messages a read of group g delivered, by the stream before and
\* after it.
DeliveredBy(pre, post, g) == {n \in 1..post.lastid : <<g, n>> \in post.seen \ pre.seen}

Elements(q) == {q[i] : i \in 1..Len(q)}

C22_XReadGroupResult ==
    last.op = "XReadGroup" =>
        /\ last.drvErr = RedisNil =>
              /\ last.ret = [val |-> <<>>, err |-> Nil]
              /\ UndeliveredOf(last.pre, last.group) = {}
        /\ (last.io = "ok" /\ last.pre.type = "stream" /\ last.group \in last.pre.groups
            /\ UndeliveredOf(last.pre, last.group) = {}) => last.drvErr = RedisNil
        /\ last.drvErr = Nil =>
              /\ last.ret.err = Nil
              /\ last.ret.val # <<>>
              /\ Elements(last.ret.val)
                    = {ID(n) : n \in DeliveredBy(last.pre, last.post, last.group)}
        /\ last.drvErr \notin {Nil, RedisNil} =>
              last.ret = [val |-> <<>>, err |-> last.drvErr]

\* A read of a group whose messages were all delivered returns nothing and
\* no error.
C22_Witness ==
    /\ last.op = "XReadGroup"
    /\ last.drvErr = RedisNil
    /\ last.ret = [val |-> <<>>, err |-> Nil]
    /\ last.pre.lastid > 0
    /\ last.pre.seen # {}

\* A read fails with an error other than the nil reply, which the caller
\* receives.
C22_WitnessError ==
    /\ last.op = "XReadGroup"
    /\ last.drvErr = NoGroup
    /\ last.ret.err = NoGroup

-----------------------------------------------------------------------------
(* Keys with a lifetime                                                    *)

\* The positions of key k in a batch.
SetsOf(sets, k) == {i \in 1..Len(sets) : sets[i].Key = k}

\* The last element of a batch for key k.
LastSetOf(sets, k) == sets[CHOOSE i \in SetsOf(sets, k) : \A j \in SetsOf(sets, k) : j <= i]

\* Key k holds the value of the batch's element for it, with the
\* element's lifetime when TTL > 0 and without expiry when TTL = 0.
HoldsSet(e, set) ==
    /\ e.type = "string"
    /\ e.str = set.Value.data
    /\ e.ttl = set.TTL

C24_TTLResult ==
    (last.op = "TTL" /\ last.io = "ok") =>
        IF last.pre.type = "none" \/ last.pre.ttl = 0
        THEN last.ret.err # Nil
        ELSE last.ret = [val |-> last.pre.ttl, err |-> Nil]

\* What TTL returns instead: for a key with a timeout the remaining
\* seconds and nil, for a missing key and for a key without a timeout 0 and
\* nil; an I/O error as received.
C24_TTLReturnsZero ==
    last.op = "TTL" =>
        IF last.io # "ok" THEN last.ret = [val |-> 0, err |-> IOError]
        ELSE IF last.pre.type = "none" \/ last.pre.ttl = 0
        THEN last.ret = [val |-> 0, err |-> Nil]
        ELSE last.ret = [val |-> last.pre.ttl, err |-> Nil]

\* TTL of a key that Set wrote without expiration returns 0 and nil.
C24_Witness ==
    /\ last.op = "TTL"
    /\ last.io = "ok"
    /\ last.pre.type = "string"
    /\ last.pre.ttl = 0
    /\ last.ret = [val |-> 0, err |-> Nil]

-----------------------------------------------------------------------------
(* Identifiers returned together with an error                             *)

\* C25: whenever Insert or InsertUUID returns a non-nil error (failure of
\* begin, query, row scanning or commit), the identifier list it returns is
\* empty.
C25_NoIdsOnError ==
    (pgcall.op \in {"Insert", "InsertUUID"} /\ pgcall.pos = "done" /\ pgcall.err # Nil)
        => pgcall.ids = <<>>

\* What Insert and InsertUUID return with an error: no identifiers after a
\* failed begin or query, the identifiers scanned before the failing row
\* after a scan failure, and all identifiers after a failed commit; none of
\* these rows is committed.
C25_IdsOnError ==
    (pgcall.op \in {"Insert", "InsertUUID"} /\ pgcall.pos = "done" /\ pgcall.err # Nil) =>
        /\ pgcall.failed \in {"begin", "exec"} => pgcall.ids = <<>>
        /\ pgcall.failed = "scan" =>
              /\ Len(pgcall.ids) < Len(pgcall.rows)
              /\ \A i \in 1..Len(pgcall.ids) : pgcall.ids[i] = Scan(pgcall.op, pgcall.rows[i])
        /\ pgcall.failed = "commit" =>
              /\ Len(pgcall.ids) = Len(pgcall.rows)
              /\ \A i \in 1..Len(pgcall.ids) : pgcall.ids[i] = Scan(pgcall.op, pgcall.rows[i])
        /\ \A i \in 1..Len(pgcall.rows) :
              \A j \in 1..Len(pgtable) : pgtable[j] # pgcall.rows[i]

\* Insert returns identifiers and the error of a failed commit.
C25_Witness ==
    /\ pgcall.op = "Insert"
    /\ pgcall.pos = "done"
    /\ pgcall.failed = "commit"
    /\ pgcall.ids # <<>>

-----------------------------------------------------------------------------
(* The slice handed to ArrayToString                                       *)

\* C26: ArrayToString and StringsToString (and with them AddStringSlice and
\* StringSlice, which render their argument through ArrayToString) do not
\* modify the slice they are given: after the call the caller's elements
\* are unchanged, and rendering the same slice twice yields the same
\* literal both times, also when an element contains a single quote.
C26_SliceUnchanged ==
    (conv.fn = "ArrayToString" /\ conv.done) =>
        /\ conv.n = 1 => conv.after = conv.arr
        /\ conv.n = 2 => conv.again = conv.out

HasQuote(arr) == \E i \in 1..Len(arr) : CountQuotes(arr[i]) > 0

\* What holds: slices of integers and bytes, nil and empty slices and
\* slices of strings without a single quote are left as they were and
\* render alike twice; a slice of strings with a quote in an element has
\* every quote doubled after the call.
C26_ExceptQuotes ==
    (conv.fn = "ArrayToString" /\ conv.done) =>
        IF conv.arr.type = "[]string" /\ HasQuote(conv.arr.elems)
        THEN /\ conv.n = 1 =>
                  /\ Len(conv.after.elems) = Len(conv.arr.elems)
                  /\ \A i \in 1..Len(conv.arr.elems) :
                        CountQuotes(conv.after.elems[i]) = 2 * CountQuotes(conv.arr.elems[i])
             /\ conv.n = 2 => conv.again # conv.out
        ELSE /\ conv.n = 1 => conv.after = conv.arr
             /\ conv.n = 2 => conv.again = conv.out

\* A slice of strings with a quote in an element was rendered twice.
C26_Witness ==
    /\ conv.fn = "ArrayToString"
    /\ conv.n = 2
    /\ conv.arr.type = "[]string"
    /\ HasQuote(conv.arr.elems)
    /\ conv.again # conv.out

-----------------------------------------------------------------------------
(* The statement UpdateQuery renders                                       *)

FirstIndex(q, ch) == CHOOSE i \in 1..Len(q) : q[i] = ch /\ \A j \in 1..(i - 1) : q[j] # ch

\* strings.Split
RECURSIVE Split(_, _)
Split(q, sep) ==
    IF \A i \in 1..Len(q) : q[i] # sep THEN <<q>>
    ELSE LET i == FirstIndex(q, sep)
         IN <<SubSeq(q, 1, i - 1)>> \o Split(SubSeq(q, i + 1, Len(q)), sep)

\* The column names of the SET list of a rendered statement: the text
\* between the first parentheses, split at the commas.
SetColumns(query) ==
    Split(SubSeq(query, FirstIndex(query, "(") + 1, FirstIndex(query, ")") - 1), ",")

Occurrences(q, x) == Cardinality({i \in 1..Len(q) : q[i] = x})

\* C27: in every statement rendered by UpdateQuery each column name occurs
\* at most once in the SET column list and updated_at occurs exactly once,
\* whatever setter and Add* calls preceded it.
C27_DistinctColumns ==
    (call.op = "UpdateQuery" /\ call.query # <<>>) =>
        LET cols == SetColumns(call.query)
        IN /\ \A i \in 1..Len(cols) : Occurrences(cols, cols[i]) = 1
           /\ Occurrences(cols, Lit_updated_at) = 1

\* What holds: the SET list is the builder's columns in the order of the
\* calls that recorded them, repetitions included, followed by updated_at.
C27_ColumnsAsRecorded ==
    (call.op = "UpdateQuery" /\ call.query # <<>>) =>
        SetColumns(call.query) = Fields \o <<Lit_updated_at>>

\* A statement was rendered after two changes of one column.
C27_Witness ==
    /\ call.op = "UpdateQuery"
    /\ Len(Fields) = 2
    /\ Fields[1] = Fields[2]
    /\ Occurrences(SetColumns(call.query), Fields[1]) = 2

\* A statement was rendered after the caller added updated_at.
C27_WitnessUpdatedAt ==
    /\ call.op = "UpdateQuery"
    /\ Fields # <<>>
    /\ Occurrences(SetColumns(call.query), Lit_updated_at) = 2

\* C28: UpdateQuery renders the WHERE clause as id = <decimal>, unquoted,
\* for an id of any integer type and as id = '<uuid>' for a UUID id.
C28_WhereClause ==
    (call.op = "UpdateQuery" /\ call.query # <<>>) =>
        IF call.id.kind = "uuid"
        THEN HasSuffix(call.query, Lit_WHERE \o Quoted(call.id.s))
        ELSE HasSuffix(call.query, Lit_WHERE \o FormatInt(call.id.n))

\* What holds: the decimal form for a uint id, the quoted UUID for a UUID
\* id, and for an id of another integer type the quoted bad-verb text of
\* fmt.
C28_UintAndUUID ==
    (call.op = "UpdateQuery" /\ call.query # <<>>) =>
        CASE call.id.kind = "uuid" -> HasSuffix(call.query, Lit_WHERE \o Quoted(call.id.s))
          [] call.id.kind = "uint" -> HasSuffix(call.query, Lit_WHERE \o FormatInt(call.id.n))
          [] OTHER ->
                HasSuffix(call.query,
                          Lit_WHERE \o <<"'", "%", "!", "s", "(", "i", "n", "t", "6", "4", "=">>
                          \o FormatInt(call.id.n) \o <<")", "'">>)

\* A statement was rendered for an int64 id.
C28_Witness ==
    /\ call.op = "UpdateQuery"
    /\ call.query # <<>>
    /\ call.id.kind = "int64"

\* C29: Time(was, is, field) appends nothing when was and is denote the
\* same instant, whatever their time zones, and appends exactly one entry
\* when the instants differ.
C29_SameInstant ==
    call.op = "Time" =>
        IF call.was.inst = call.is.inst
        THEN Fields = before.Fields /\ Values = before.Values
        ELSE /\ Fields = Append(before.Fields, call.field)
             /\ Len(Values) = Len(before.Values) + 1

\* What holds: nothing is appended when instant and location are the same,
\* one entry otherwise - also for one instant in two locations, where the
\* entry has the literal AddTime renders for was.
C29_SameValue ==
    call.op = "Time" =>
        IF call.was = call.is
        THEN Fields = before.Fields /\ Values = before.Values
        ELSE /\ Fields = Append(before.Fields, call.field)
             /\ Values = Append(before.Values, Quoted(FormatRFC3339Nano(UTC(call.is))))
             /\ call.was.inst = call.is.inst =>
                   FormatRFC3339Nano(UTC(call.was)) = FormatRFC3339Nano(UTC(call.is))

\* Time was called with one instant in two locations and appended an entry.
C29_Witness ==
    /\ call.op = "Time"
    /\ call.was.inst = call.is.inst
    /\ call.was.loc # call.is.loc
    /\ Len(Fields) = Len(before.Fields) + 1

-----------------------------------------------------------------------------
(* The last-query field under concurrent calls                             *)

\* No call is in flight and some call has returned.
Quiescent == last.lines # {} /\ \A p \in RaceProcs : cur[p].op = "none"

\* C30: with two operations running concurrently on one client, after both
\* have returned LastQuery() is the complete log line of one of them.
C30_CompleteLine == Quiescent => LastQuery \in last.lines

\* What holds: after the calls have returned the field has the address of
\* one call's line and the length of one call's line - of the same call or
\* of two different ones; what each call returns is what its driver call
\* gave, whatever the field holds.
C30_WordsOfSomeLine ==
    /\ Quiescent =>
          \E a \in last.lines, b \in last.lines : lastQuery = [ptr |-> a, len |-> Len(b)]
    /\ last.line # <<>> =>
          /\ last.ret.err \in {Nil, IOError, WrongType}
          /\ last.op = "Get" =>
                \/ last.ret = [val |-> "def", err |-> Nil]
                \/ last.ret.val \in RaceProcs /\ last.ret.err = Nil
                \/ last.ret.val = "" /\ last.ret.err # Nil

\* Two calls overlapped, both have returned, and LastQuery() is the
\* complete line of neither: the start of the longer line cut to the length
\* of the shorter.
C30_WitnessTorn ==
    /\ Quiescent
    /\ Cardinality(last.lines) = 2
    /\ LastQuery \notin last.lines
    /\ \E a \in last.lines : Len(LastQuery) < Len(a) /\ LastQuery = SubSeq(a, 1, Len(LastQuery))

\* A caller reads LastQuery() right after its own call and sees the
\* complete line of the other call.
C30_WitnessOtherLine ==
    /\ last.line # <<>>
    /\ last.seen # last.line
    /\ last.seen \in last.lines

=============================================================================
